---- MODULE Spec2Model ----
(***************************************************************************)
(* A model of the feishuBot bridge.                                        *)
(*                                                                         *)
(* Part I  - the gateway session (OpenClawService).  The repository holds  *)
(*           two versions of the class: the handshake version              *)
(*           (src/unnamed/part_003: challenge/response handshake, guarded  *)
(*           reconnect timer, chatViaWs) and the queueing version          *)
(*           (src/src/services/openclaw.ts: messageQueue, sendRequest).    *)
(*           The variable impl says which one a behaviour runs.            *)
(* Part II - the inbound event handler (im.message.receive_v1) in its      *)
(*           three versions: FeishuEventDispatcher (src/src/handlers),     *)
(*           FeishuRuntime (src/unnamed/part_001) and the channel plugin   *)
(*           (src/src/channel/channel.ts).                                 *)
(*                                                                         *)
(* Part III - outbound text: the segmenter chunkText and sendText of        *)
(*           FeishuRuntime (src/unnamed/part_001), sendText and sendMedia  *)
(*           of the channel plugin (src/src/channel/channel.ts).           *)
(* Part IV - the reply of one turn of the channel plugin: placeholder,     *)
(*           deliver callback (card updates or text messages), final card  *)
(*           update (src/src/channel/channel.ts).  A text above the chunk  *)
(*           limit goes out chunk by chunk (SpecLongTurn,                  *)
(*           SpecChunkSends).                                              *)
(* The dispatcher's handler writes the conversation history of             *)
(* SessionManager (src/src/utils/config.ts) as it goes; startAccount,      *)
(* start() and the gateway.start/gateway.stop of the runtime's plugin      *)
(* (src/unnamed/part_002) are actions with their await, so that a stop or  *)
(* an abort can fall inside a start, and every call of a start has its     *)
(* own interval, record of ids and socket client.                          *)
(*                                                                         *)
(* A JavaScript callback runs to its first await without interleaving, so  *)
(* every action below is one callback (or one synchronous stretch of an    *)
(* async function).                                                        *)
(***************************************************************************)
EXTENDS Integers, Sequences, FiniteSets, TLC

\* ------------------------------------------------------------------ bounds
\* Correlation ids the session may allocate in one behaviour (uuidv4 never repeats).
MaxIds == 2
\* Inbound turns that may be suspended at the same time.
MaxTurns == 1
\* Longest reply text handed to the segmenter, in characters.
MaxText == 6
\* Largest chunk limit (config.textChunkLimit).
MaxLimit == 4
\* Reply payloads the backend delivers in one turn.
MaxPayloads == 3

\* The media URLs of one payload, and the payloads of a turn that carries such lists.
MaxMedia == 2
MaxMediaPayloads == 1
\* The chunks the host's chunker cuts a text into, and the payloads of a turn whose
\* texts are over the limit.
MaxChunks == 3
MaxLongPayloads == 1

MaxTokens == 5
\* Payloads delivered to each of two turns in flight together.
MaxFlightPayloads == 2
\* The length of the texts the loop of chunkText is followed on, pass by pass.
MaxLoopText == 5
\* Messages added to one session before it is cleared.
MaxAdds == 22
\* Messages a session holds when the dispatcher's handler still takes a message for
\* the backend.
MaxSaid == 1
\* The calls of startAccount, or of start, in one behaviour.
MaxRuns == 2
\* The calls of gateway.stop suspended at the same time.
MaxStops == 1
\* How far the clock goes, in cleanup intervals.
MaxClock == 8

\* ------------------------------------------------- program constants
maxReconnectAttempts == 10
\* part_003: reconnectDelay (ms)
reconnectDelay == 3000
\* openclaw.ts: reconnectDelay (ms)
reconnectDelayQ == 1000
\* part_003: Math.min(this.reconnectAttempts, 5)
delayCap == 5
\* part_001: this.config.textChunkLimit || 4000
defaultChunkLimit == 4000

VARIABLES
  \* ---- Part I: OpenClawService
  impl,                 \* "handshake" (part_003) or "queueing" (openclaw.ts)
  started,              \* main() has called connect()
  ws,                   \* this.ws: "null" or "sock" (the socket created last)
  readyState,           \* of the socket created last: NONE/CONNECTING/OPEN/CLOSING/CLOSED
  opened,               \* whether the socket created last has emitted 'open'
  isConnected,
  isHandshakeComplete,
  reconnectAttempts,
  reconnectTimer,       \* NoTimer or [delay |-> ms]
  pendingRequests,      \* id -> kind of the registered request
  timeouts,             \* ids whose request timeout timer is armed
  messageQueue,         \* openclaw.ts: callers queued while the connection is down
  qTimers,              \* openclaw.ts: delays of the outstanding reconnect setTimeouts
  nextId,               \* the next fresh correlation id
  \* ---- observers of Part I (no counterpart in the code)
  wire,                 \* ids written to the transport
  settled,              \* id -> the completions (resolve/reject calls) of its promise
  lastCall,             \* what the last request call found and did
  failures,             \* close events since the last open
  scheduled,            \* delays of the reconnects scheduled since the last open
  sinceHandshake,       \* reconnects scheduled since the last completed handshake
  disconnectCalled,     \* disconnect() has been called
  atDisconnect,         \* ids in the pending table at the last disconnect()
  \* ---- Part II: the im.message.receive_v1 handler
  variant,              \* "dispatcher" (event.ts), "runtime" (part_001), "channel"
  requireMention,       \* account.requireMention: "true", "false" or "unset"
  voiceEnabled,         \* account.voiceEnabled === true (channel.ts)
  processedEvents,      \* the Set of event ids seen in the current window
  turns,                \* the suspended handler invocations: turn -> how many
  \* ---- observers of Part II
  passed,               \* id -> invocations that passed the dedup check this window
  last,                 \* what the last handler invocation read and did
  \* ---- Part III: outbound text
  replyText,            \* options.text: a sequence of characters
  textChunkLimit,       \* config.textChunkLimit
  chunks,               \* the result of chunkText, once called
  segPc,                \* "input", "chunked", "awaiting", "returned"
  method,               \* the outbound method called
  activeClient,         \* channel.ts: activeClient is not null
  sendTo,               \* channel.ts: the target, [prefix, id]
  replyTo,              \* a message id to reply to was given
  \* ---- observers of Part III
  outbox,               \* the outbound calls issued, with how each settled
  result,               \* what the method gave its caller
  \* ---- Part IV: one turn of the channel plugin
  useStreaming,         \* account.streamingEnabled === true
  thinkingMsgId,        \* "null" or the id of the placeholder
  cardMessageId,        \* "null" or the id of the card being updated
  accumulatedText,      \* the texts delivered so far, with dividers
  firstReply,
  deliverCount,
  payload,              \* the payload the deliver callback is working on
  turnPc,               \* where the turn stands
  \* ---- observer of Part IV
  delivered,            \* the payloads the dispatcher has called deliver with
  \* ---- Part V: the text of a text event
  parsedText,           \* parsed.text of the event, a sequence of tokens
  eventMentions,        \* message.mentions of the event
  normText,             \* the handler's text, after the mentions loop
  normPc,               \* "event", then "dispatched" or "dropped"
  \* ---- Part VI: start and shutdown of the channel
  cleanupInterval,      \* the setInterval that clears processedEvents is armed
  wsClient,             \* the lark.WSClient created last: "null", "created",
                        \* "starting", "open", "failed", "closing" (closed while
                        \* its start is awaited) or "closed"
  isRunning,            \* part_001: this.isRunning
  status,               \* channel.ts: what setStatus was last called with
  aborted,              \* channel.ts: ctx.abortSignal of the run started last has fired
  ctx,                  \* channel.ts: the ctx the run started last was called with
  earlier,              \* the runs started before the last, oldest first: for each
                        \* its interval, its socket client, its ctx, whether the
                        \* signal of that ctx has fired, its isRunning and its
                        \* record of event ids
  runtimeInstance,      \* part_001 462: the module holds a FeishuRuntime, the one
                        \* created last
  stopping,             \* part_002 107-113: calls of gateway.stop at their await
  \* ---- observer of Part VI
  shutdown,             \* the shutdown called since the last start: "none", "abort",
                        \* "abort.unheard", "stopAccount", "stop", "gateway.stop"
  \* ---- Part VII: the turns of two chats in flight together
  flight,               \* per chat: where its invocation of the handler stands
  \* ---- Part VIII: the conversation history (SessionManager)
  sessions,             \* this.sessions: key -> [messages, updatedAt]
  now,                  \* Date.now(), in ticks
  \* ---- observer of Part VIII
  added,                \* per pair: messages added since its session was created
  \* ---- Part III, the loop of chunkText taken one iteration at a time
  remainder             \* let remaining = text

sessionVars ==
  <<impl, started, ws, readyState, opened, isConnected, isHandshakeComplete,
    reconnectAttempts, reconnectTimer, pendingRequests, timeouts, messageQueue,
    qTimers, nextId, wire, settled, lastCall, failures, scheduled,
    sinceHandshake, disconnectCalled, atDisconnect>>

inboundVars ==
  <<variant, requireMention, voiceEnabled, processedEvents, turns, passed, last>>

sendVars ==
  <<replyText, textChunkLimit, chunks, segPc, sendTo, replyTo, result>>

turnVars ==
  <<useStreaming, thinkingMsgId, cardMessageId, accumulatedText, firstReply,
    deliverCount, payload, turnPc, delivered>>

outboundVars == <<sendVars, method, activeClient, outbox, turnVars>>

normVars == <<parsedText, eventMentions, normText, normPc>>

\* The runtime the plugin of part_002 holds, and its calls of stop.
gatewayVars == <<runtimeInstance, stopping>>

lifeVars ==
  <<cleanupInterval, wsClient, isRunning, status, aborted, ctx, earlier, gatewayVars,
    shutdown>>

historyVars == <<sessions, now, added>>

\* Parts VII and VIII together.
restVars == <<flight, historyVars, remainder>>

vars == <<sessionVars, inboundVars, outboundVars, normVars, lifeVars, restVars>>

\* What a specification of one part leaves alone.
besideSession ==
  <<inboundVars, outboundVars, normVars, lifeVars, restVars>>

besideInbound ==
  <<sessionVars, outboundVars, normVars, lifeVars, restVars>>

\* The same for the steps of the handler that write the history.
besideHandler ==
  <<sessionVars, outboundVars, normVars, lifeVars, flight, remainder>>

besideOutbound ==
  <<sessionVars, inboundVars, turnVars, normVars, lifeVars, restVars>>

besideTurn ==
  <<sessionVars, inboundVars, sendVars, normVars, lifeVars, restVars>>

besideStopAccount ==
  <<sessionVars, inboundVars, sendVars, turnVars, normVars, restVars>>

besideStartAccount ==
  <<sessionVars, sendVars, turnVars, normVars, restVars>>

\* ------------------------------------------------------------ helpers
Min(a, b) == IF a < b THEN a ELSE b

Ids == 1 .. MaxIds

NoTimer == [armed |-> FALSE, delay |-> 0]

Timer(d) == [armed |-> TRUE, delay |-> d]

\* Map.delete(id)
MapDelete(m, id) == [i \in (DOMAIN m) \ {id} |-> m[i]]

\* Map.set(id, v)
MapSet(m, id, v) == [i \in (DOMAIN m) \cup {id} |-> IF i = id THEN v ELSE m[i]]

EmptyMap == [i \in {} |-> "none"]

\* The ghost saturates one above the limit the claims compare it with.
Bump(n) == IF n > maxReconnectAttempts THEN n ELSE n + 1

\* sinceHandshake is observed only in the behaviours of SpecReconnect.
Unobserved == 0 - 1

Since(n, isScheduled) == IF n = Unobserved \/ ~isScheduled THEN n ELSE Bump(n)

\* ===================================================================
\* Part I: OpenClawService
\* ===================================================================

\* 2^n, for the queueing version's Math.pow(2, attempts - 1)
RECURSIVE Pow2(_)
Pow2(n) == IF n <= 0 THEN 1 ELSE 2 * Pow2(n - 1)

\* part_003 attemptReconnect: const delay = reconnectDelay * Math.min(attempts, 5)
BadReconnectDelayFor(attempts) == reconnectDelay * attempts
ReconnectDelayFor(attempts) == reconnectDelay * Min(attempts, delayCap)

\* openclaw.ts attemptReconnect: reconnectDelay * Math.pow(2, attempts - 1)
ReconnectDelayForQ(attempts) == reconnectDelayQ * Pow2(attempts - 1)

\* part_003 attemptReconnect, as a function of the fields it reads: the new timer
\* field, the new counter, and whether a reconnect was scheduled.
attemptReconnect(timer, attempts) ==
  IF timer.armed
    THEN [timer |-> timer, attempts |-> attempts, scheduled |-> FALSE]
    ELSE IF attempts >= maxReconnectAttempts
      THEN [timer |-> timer, attempts |-> attempts, scheduled |-> FALSE]
      ELSE [timer |-> Timer(ReconnectDelayFor(attempts + 1)),
            attempts |-> attempts + 1, scheduled |-> TRUE]

\* openclaw.ts attemptReconnect: no timer field, the setTimeout handle is dropped.
attemptReconnectQ(timers, attempts) ==
  IF attempts >= maxReconnectAttempts
    THEN [timers |-> timers, attempts |-> attempts, scheduled |-> FALSE]
    ELSE [timers |-> Append(timers, ReconnectDelayForQ(attempts + 1)),
          attempts |-> attempts + 1, scheduled |-> TRUE]

\* chatViaWs's guard: !this.isConnected || !this.isHandshakeComplete
BadNotReady(connected, handshake) == ~connected
NotReady(connected, handshake) == ~connected \/ ~handshake

\* sendRequest's guard (openclaw.ts): !this.isConnected || !this.ws
NotConnectedQ(connected, sock) == ~connected \/ sock = "null"

\* wsSend: writes only when this.ws && this.ws.readyState === WebSocket.OPEN
wsSend(sock, state, written, id) ==
  IF sock # "null" /\ state = "OPEN" THEN written \cup {id} ELSE written

\* WebSocket.close() of the ws library: a connecting or open socket starts closing
\* (its 'close' event follows later), a closing or closed one is left as it is.
wsClose(state) == IF state \in {"CONNECTING", "OPEN"} THEN "CLOSING" ELSE state

\* The promise callbacks chatViaWs registers clear the request's timeout timer.
BadClearTimeout(ts, id) == ts
clearTimeout(ts, id) == ts \ {id}

\* The observation of one request call: whether the session was ready (by the flags
\* the version's guard reads), how the call ended for the caller, and what it did.
NoCall ==
  [made |-> FALSE, ready |-> FALSE, outcome |-> "none", registered |-> FALSE,
   written |-> FALSE, queued |-> FALSE]

Call(r, o, reg, wr, q) ==
  [made |-> TRUE, ready |-> r, outcome |-> o, registered |-> reg, written |-> wr,
   queued |-> q]

\* settled[id] with one more completion
Complete(st, id, outcome) == [st EXCEPT ![id] = Append(@, outcome)]

\* new WebSocket(url): this.ws is the new socket, which is connecting.
\* (connect() of either version; the handlers it registers are the Socket* actions.)
connect ==
  /\ ws' = "sock"
  /\ readyState' = "CONNECTING"
  /\ opened' = FALSE

\* main(): await openclawService.connect()
MainConnect ==
  /\ ~started
  /\ started' = TRUE
  /\ connect
  /\ UNCHANGED <<impl, isConnected, isHandshakeComplete, reconnectAttempts,
                 reconnectTimer, pendingRequests, timeouts, messageQueue, qTimers,
                 nextId, wire, settled, lastCall, failures, scheduled,
                 sinceHandshake, disconnectCalled, atDisconnect>>

\* openclaw.ts processMessageQueue, run by the open handler: every queued caller is
\* re-submitted through sendRequest, which now registers it under a fresh id (the
\* guard passes: isConnected was just set and this.ws is the socket that opened),
\* writes it and arms its 60 s timer.
RECURSIVE processMessageQueue(_, _, _)
processMessageQueue(queue, pending, next) ==
  IF queue = <<>>
    THEN [pending |-> pending, next |-> next]
    ELSE processMessageQueue(Tail(queue), MapSet(pending, next, "queued"), next + 1)

\* The ghost list of scheduled delays, one longer at most than the limit.
Scheduled(list, r, d) ==
  IF r.scheduled /\ Len(list) <= maxReconnectAttempts THEN Append(list, d) ELSE list

\* ws.on('open')
SocketOpen ==
  /\ readyState = "CONNECTING"
  /\ readyState' = "OPEN"
  /\ opened' = TRUE
  /\ isConnected' = TRUE
  /\ reconnectAttempts' = 0
  /\ failures' = 0
  /\ scheduled' = <<>>
  /\ IF impl = "queueing"
       THEN LET r == processMessageQueue(messageQueue, pendingRequests, nextId)
                new == nextId .. (r.next - 1)
            IN /\ pendingRequests' = r.pending
               /\ nextId' = r.next
               /\ messageQueue' = <<>>
               /\ wire' = wire \cup new
               /\ timeouts' = timeouts \cup new
       ELSE UNCHANGED <<pendingRequests, nextId, messageQueue, wire, timeouts>>
  /\ UNCHANGED <<impl, started, ws, isHandshakeComplete, reconnectTimer, qTimers,
                 settled, lastCall, sinceHandshake, disconnectCalled,
                 atDisconnect>>

\* ws.on('close'): both versions clear isConnected and call attemptReconnect; the
\* handshake version also clears isHandshakeComplete.
OnClose ==
  /\ isConnected' = FALSE
  /\ failures' = Bump(failures)
  /\ IF impl = "handshake"
       THEN LET r == attemptReconnect(reconnectTimer, reconnectAttempts)
            IN /\ isHandshakeComplete' = FALSE
               /\ reconnectTimer' = r.timer
               /\ reconnectAttempts' = r.attempts
               /\ scheduled' = Scheduled(scheduled, r, r.timer.delay)
               /\ sinceHandshake' = Since(sinceHandshake, r.scheduled)
               /\ UNCHANGED qTimers
       ELSE LET r == attemptReconnectQ(qTimers, reconnectAttempts)
            IN /\ qTimers' = r.timers
               /\ reconnectAttempts' = r.attempts
               /\ scheduled' =
                    Scheduled(scheduled, r, ReconnectDelayForQ(r.attempts))
               /\ UNCHANGED <<isHandshakeComplete, reconnectTimer, sinceHandshake>>

\* The socket fails to connect: the ws library emits 'error' (the handler rejects
\* connect()'s promise, no field changes) and then 'close'.
SocketConnectFail ==
  /\ readyState = "CONNECTING"
  /\ readyState' = "CLOSED"
  /\ OnClose
  /\ UNCHANGED <<impl, opened, started, ws, pendingRequests, timeouts, messageQueue, nextId,
                 wire, settled, lastCall, disconnectCalled, atDisconnect>>

\* The peer starts the closing handshake (or the connection breaks): the socket
\* leaves OPEN before its 'close' event is emitted.  No handler runs.
SocketClosing ==
  /\ readyState = "OPEN"
  /\ readyState' = "CLOSING"
  /\ UNCHANGED <<impl, opened, started, ws, isConnected, isHandshakeComplete,
                 reconnectAttempts, reconnectTimer, pendingRequests, timeouts,
                 messageQueue, qTimers, nextId, wire, settled, lastCall,
                 failures, scheduled, sinceHandshake, disconnectCalled,
                 atDisconnect>>

\* The socket is closed: 'close' is emitted, whoever started the closing.
SocketClose ==
  /\ readyState \in {"OPEN", "CLOSING"}
  /\ readyState' = "CLOSED"
  /\ OnClose
  /\ UNCHANGED <<impl, opened, started, ws, pendingRequests, timeouts, messageQueue, nextId,
                 wire, settled, lastCall, disconnectCalled, atDisconnect>>

\* The reconnect timer fires (part_003): this.reconnectTimer = null; this.connect()
ReconnectTimerFire ==
  /\ impl = "handshake"
  /\ reconnectTimer.armed
  /\ reconnectTimer' = NoTimer
  /\ connect
  /\ UNCHANGED <<impl, started, isConnected, isHandshakeComplete, reconnectAttempts,
                 pendingRequests, timeouts, messageQueue, qTimers, nextId, wire,
                 settled, lastCall, failures, scheduled, sinceHandshake,
                 disconnectCalled, atDisconnect>>

\* A reconnect timer that stays outstanding after it has fired.
BadReconnectTimerFireQ ==
  /\ impl = "queueing"
  /\ qTimers # <<>>
  /\ qTimers' = qTimers
  /\ connect
  /\ UNCHANGED <<impl, started, isConnected, isHandshakeComplete, reconnectAttempts,
                 reconnectTimer, pendingRequests, timeouts, messageQueue, nextId,
                 wire, settled, lastCall, failures, scheduled,
                 sinceHandshake, disconnectCalled, atDisconnect>>

\* A reconnect setTimeout fires (openclaw.ts): this.connect()
ReconnectTimerFireQ ==
  /\ impl = "queueing"
  /\ qTimers # <<>>
  /\ qTimers' = Tail(qTimers)
  /\ connect
  /\ UNCHANGED <<impl, started, isConnected, isHandshakeComplete, reconnectAttempts,
                 reconnectTimer, pendingRequests, timeouts, messageQueue, nextId,
                 wire, settled, lastCall, failures, scheduled,
                 sinceHandshake, disconnectCalled, atDisconnect>>

\* ------------------------------------------------ inbound gateway messages

\* What the gateway may send on an open socket.  id 0 stands for a response without
\* id, id -1 for an id that no request of this session ever carried; a response can
\* only echo an id that was written to it.
GatewayMessages ==
  {[type |-> "garbage", event |-> "", ok |-> "missing", id |-> 0, valid |-> FALSE]}
  \cup {[type |-> "event", event |-> e, ok |-> "missing", id |-> 0, valid |-> FALSE] :
          e \in {"connect.challenge", "tick"}}
  \cup {[type |-> "res", event |-> "", ok |-> o, id |-> i, valid |-> v] :
          o \in {"true", "false", "missing"}, i \in {-1, 0} \cup wire,
          v \in BOOLEAN}

\* pending.resolve(message) of part_003, by the kind of the request: the promise
\* callbacks of chatViaWs (lines 204-212) or the logging ones of handleChallenge.
ResolveOutcome(kind, m) ==
  IF kind = "connect" THEN "connect_ok"
  ELSE IF m.valid THEN "resolved" ELSE "invalid_response"

\* pending.reject(error) of part_003 (lines 213-216, 143-145)
RejectOutcome(kind) == IF kind = "connect" THEN "connect_failed" ELSE "error"

\* part_003 handleChallenge: register the connect request, then wsSend it.
handleChallenge ==
  /\ nextId <= MaxIds
  /\ pendingRequests' = MapSet(pendingRequests, nextId, "connect")
  /\ wire' = wsSend(ws, readyState, wire, nextId)
  /\ nextId' = nextId + 1
  /\ UNCHANGED <<isHandshakeComplete, timeouts, settled, sinceHandshake>>

\* part_003 handleMessage
handleMessage(m) ==
  IF m.type = "garbage"
    THEN UNCHANGED <<pendingRequests, wire, nextId, isHandshakeComplete, timeouts,
                     settled, sinceHandshake>>
  ELSE IF m.type = "event" /\ m.event = "connect.challenge"
    THEN handleChallenge
  ELSE IF m.type = "res" /\ m.ok = "true" /\ m.id # 0
    THEN /\ IF m.id \in DOMAIN pendingRequests
              THEN /\ settled' = Complete(settled, m.id,
                                          ResolveOutcome(pendingRequests[m.id], m))
                   /\ timeouts' = clearTimeout(timeouts, m.id)
                   /\ pendingRequests' = MapDelete(pendingRequests, m.id)
              ELSE UNCHANGED <<settled, timeouts, pendingRequests>>
         /\ isHandshakeComplete' = TRUE
         /\ sinceHandshake' =
              IF isHandshakeComplete \/ sinceHandshake = Unobserved
                THEN sinceHandshake ELSE 0
         /\ UNCHANGED <<wire, nextId>>
  ELSE IF m.type = "res" /\ m.ok = "false" /\ m.id # 0
    THEN /\ IF m.id \in DOMAIN pendingRequests
              THEN /\ settled' = Complete(settled, m.id,
                                          RejectOutcome(pendingRequests[m.id]))
                   /\ timeouts' = clearTimeout(timeouts, m.id)
                   /\ pendingRequests' = MapDelete(pendingRequests, m.id)
              ELSE UNCHANGED <<settled, timeouts, pendingRequests>>
         /\ UNCHANGED <<wire, nextId, isHandshakeComplete, sinceHandshake>>
  ELSE UNCHANGED <<pendingRequests, wire, nextId, isHandshakeComplete, timeouts,
                   settled, sinceHandshake>>

\* openclaw.ts handleMessage: any response with an id resolves its callback; the
\* request's timer is left armed.
handleMessageQ(m) ==
  IF m.type = "res" /\ m.id # 0 /\ m.id \in DOMAIN pendingRequests
    THEN /\ settled' = Complete(settled, m.id, "resolved")
         /\ pendingRequests' = MapDelete(pendingRequests, m.id)
         /\ UNCHANGED <<wire, nextId, isHandshakeComplete, timeouts, sinceHandshake>>
    ELSE UNCHANGED <<pendingRequests, wire, nextId, isHandshakeComplete, timeouts,
                     settled, sinceHandshake>>

\* ws.on('message'): the handler has no guard of its own.  The socket emits the
\* event while it is open and, after close() was called, until the closing
\* handshake ends; a socket closed before it opened never emits it.
onMessage(m) ==
  /\ opened
  /\ readyState \in {"OPEN", "CLOSING"}
  /\ IF impl = "handshake" THEN handleMessage(m) ELSE handleMessageQ(m)
  /\ UNCHANGED <<impl, opened, started, ws, readyState, isConnected, reconnectAttempts,
                 reconnectTimer, messageQueue, qTimers, lastCall, failures,
                 scheduled, disconnectCalled, atDisconnect>>

SocketMessage == \E m \in GatewayMessages : onMessage(m)

\* ------------------------------------------------------------ requests

\* part_003 chatViaWs, up to the point where the caller is suspended
chatViaWs ==
  /\ impl = "handshake"
  /\ IF NotReady(isConnected, isHandshakeComplete)
       THEN /\ lastCall' = Call(isConnected /\ isHandshakeComplete, "NotConnected",
                                 FALSE, FALSE, FALSE)
            /\ UNCHANGED <<pendingRequests, timeouts, wire, nextId>>
       ELSE /\ nextId <= MaxIds
            /\ timeouts' = timeouts \cup {nextId}
            /\ pendingRequests' = MapSet(pendingRequests, nextId, "chat")
            /\ wire' = wsSend(ws, readyState, wire, nextId)
            /\ nextId' = nextId + 1
            /\ lastCall' = Call(isConnected /\ isHandshakeComplete, "suspended",
                                 TRUE, wire' # wire, FALSE)
  /\ UNCHANGED <<impl, opened, started, ws, readyState, isConnected, isHandshakeComplete,
                 reconnectAttempts, reconnectTimer, messageQueue, qTimers, settled,
                 failures, scheduled, sinceHandshake, disconnectCalled,
                 atDisconnect>>

\* part_003 chatViaWs's 120 s timer fires: delete the entry, reject the caller
ChatTimeout ==
  /\ impl = "handshake"
  /\ \E id \in timeouts :
       /\ timeouts' = timeouts \ {id}
       /\ pendingRequests' = MapDelete(pendingRequests, id)
       /\ settled' = Complete(settled, id, "timeout")
  /\ UNCHANGED <<impl, opened, started, ws, readyState, isConnected, isHandshakeComplete,
                 reconnectAttempts, reconnectTimer, messageQueue, qTimers, nextId,
                 wire, lastCall, failures, scheduled, sinceHandshake,
                 disconnectCalled, atDisconnect>>

\* openclaw.ts sendRequest.  ws.send on a socket that is no longer OPEN either throws
\* (older ws releases) or drops the data (newer ones): both are modelled.
sendRequest ==
  /\ impl = "queueing"
  /\ nextId + Len(messageQueue) <= MaxIds
  /\ IF NotConnectedQ(isConnected, ws)
       THEN /\ lastCall' = Call(isConnected, "suspended", FALSE, FALSE, TRUE)
            /\ messageQueue' = Append(messageQueue, "req")
            /\ UNCHANGED <<pendingRequests, timeouts, wire, nextId, settled>>
       ELSE /\ nextId' = nextId + 1
            /\ timeouts' = timeouts \cup {nextId}
            /\ UNCHANGED messageQueue
            /\ \/ /\ readyState = "OPEN"
                  /\ wire' = wire \cup {nextId}
                  /\ pendingRequests' = MapSet(pendingRequests, nextId, "direct")
                  /\ lastCall' = Call(TRUE, "suspended", TRUE, TRUE, FALSE)
                  /\ UNCHANGED settled
               \/ /\ readyState # "OPEN"
                  /\ pendingRequests' = MapSet(pendingRequests, nextId, "direct")
                  /\ lastCall' = Call(TRUE, "suspended", TRUE, FALSE, FALSE)
                  /\ UNCHANGED <<wire, settled>>
               \/ /\ readyState # "OPEN"
                  /\ settled' = Complete(settled, nextId, "send_error")
                  /\ lastCall' = Call(TRUE, "send_error", FALSE, FALSE, FALSE)
                  /\ UNCHANGED <<wire, pendingRequests>>
  /\ UNCHANGED <<impl, opened, started, ws, readyState, isConnected, isHandshakeComplete,
                 reconnectAttempts, reconnectTimer, qTimers, failures, scheduled,
                 sinceHandshake, disconnectCalled, atDisconnect>>

\* openclaw.ts 104: this.sendRequest(item.message).then(item.resolve).  What the
\* queued caller gets of an outcome of the request sent for it: the fulfilment is
\* passed on; a rejection has no handler and the caller's promise stays pending.
Forwarded(kind, outcome) ==
  IF kind = "queued" /\ outcome # "resolved" THEN "unhandled" ELSE outcome

\* openclaw.ts sendRequest's 60 s timer fires: it rejects only if the id is still
\* in the table.
RequestTimeoutQ ==
  /\ impl = "queueing"
  /\ \E id \in timeouts :
       /\ timeouts' = timeouts \ {id}
       /\ IF id \in DOMAIN pendingRequests
            THEN /\ pendingRequests' = MapDelete(pendingRequests, id)
                 /\ settled' = Complete(settled, id,
                                        Forwarded(pendingRequests[id], "timeout"))
            ELSE UNCHANGED <<pendingRequests, settled>>
  /\ UNCHANGED <<impl, opened, started, ws, readyState, isConnected, isHandshakeComplete,
                 reconnectAttempts, reconnectTimer, messageQueue, qTimers, nextId,
                 wire, lastCall, failures, scheduled, sinceHandshake,
                 disconnectCalled, atDisconnect>>

\* ------------------------------------------------------------ disconnect

\* part_003 disconnect(), called by the shutdown handlers main() installs after
\* connect()
disconnect ==
  /\ impl = "handshake"
  /\ started
  /\ reconnectTimer' = NoTimer
  /\ IF ws # "null"
       THEN /\ readyState' = wsClose(readyState)
            /\ ws' = "null"
            /\ isConnected' = FALSE
            /\ isHandshakeComplete' = FALSE
       ELSE UNCHANGED <<readyState, ws, isConnected, isHandshakeComplete>>
  /\ disconnectCalled' = TRUE
  /\ atDisconnect' = DOMAIN pendingRequests
  /\ UNCHANGED <<impl, opened, started, reconnectAttempts, pendingRequests, timeouts,
                 messageQueue, qTimers, nextId, wire, settled, lastCall,
                 failures, scheduled, sinceHandshake>>

\* openclaw.ts disconnect()
disconnectQ ==
  /\ impl = "queueing"
  /\ started
  /\ IF ws # "null"
       THEN /\ readyState' = wsClose(readyState)
            /\ ws' = "null"
            /\ isConnected' = FALSE
       ELSE UNCHANGED <<readyState, ws, isConnected>>
  /\ disconnectCalled' = TRUE
  /\ atDisconnect' = DOMAIN pendingRequests
  /\ UNCHANGED <<impl, opened, started, isHandshakeComplete, reconnectAttempts,
                 reconnectTimer, pendingRequests, timeouts, messageQueue, qTimers,
                 nextId, wire, settled, lastCall, failures, scheduled,
                 sinceHandshake>>

\* -------------------------------------------------------------------
\* SessionManager (src/utils/config.ts 30-104): the history the dispatcher's
\* handler writes and Part VIII checks
\* -------------------------------------------------------------------

MAX_HISTORY_LENGTH == 20
\* 30 * 60 * 1000
SESSION_TIMEOUT_MS == 1800000
\* setInterval(..., 5 * 60 * 1000): the clock is read every cleanup interval.
CleanupIntervalMs == 300000

\* Two (chat, user) pairs whose ids, written one after the other, read the same.
\* Feishu's chat ids and open ids hold no colon.
Pairs ==
  {[chatId |-> <<"a">>, userId |-> <<"b", "c">>],
   [chatId |-> <<"a", "b">>, userId |-> <<"c">>]}

\* A key that leaves the separator out.
BadGetSessionKey(chatId, userId) == chatId \o userId

\* `${chatId}:${userId}`
getSessionKey(chatId, userId) == chatId \o <<":">> \o userId

\* getSession: the sessions after the call, the session of the pair created when
\* there was none (createdAt is never read and is left out).
getSession(map, chatId, userId, t) ==
  LET key == getSessionKey(chatId, userId) IN
  IF key \in DOMAIN map THEN map
  ELSE MapSet(map, key, [chatId |-> chatId, userId |-> userId, messages |-> <<>>,
                         updatedAt |-> t])

\* Array.prototype.slice(start) with a negative start
SliceFrom(list, start) ==
  SubSeq(list, (IF Len(list) + start < 0 THEN 0 ELSE Len(list) + start) + 1, Len(list))

\* if (session.messages.length > MAX_HISTORY_LENGTH)
\*   session.messages = session.messages.slice(-MAX_HISTORY_LENGTH)
TrimHistory(messages) ==
  IF Len(messages) > MAX_HISTORY_LENGTH
    THEN SliceFrom(messages, 0 - MAX_HISTORY_LENGTH)
    ELSE messages

\* addMessage: the messages of a pair are told apart by the order they are added in
\* since the session was created.
addMessage(pair) ==
  /\ Len(added[pair]) < MaxAdds
  /\ LET key == getSessionKey(pair.chatId, pair.userId)
         map == getSession(sessions, pair.chatId, pair.userId, now)
         message == Len(added[pair]) + 1
         pushed == Append(map[key].messages, message)
     IN /\ sessions' = MapSet(map, key, [map[key] EXCEPT !.messages = TrimHistory(pushed),
                                                         !.updatedAt = now])
        /\ added' = [added EXCEPT ![pair] = Append(@, message)]
  /\ UNCHANGED now

\* getMessages: return this.getSession(chatId, userId).messages
getMessages(pair) ==
  /\ sessions' = getSession(sessions, pair.chatId, pair.userId, now)
  /\ UNCHANGED <<now, added>>

\* The ghost lists of the pairs whose sessions are gone start again.
Forget(map) ==
  [pair \in Pairs |->
     IF \E key \in DOMAIN map :
          map[key].chatId = pair.chatId /\ map[key].userId = pair.userId
       THEN added[pair] ELSE <<>>]

\* clearSession: this.sessions.delete(key)
clearSession(pair) ==
  /\ sessions' = MapDelete(sessions, getSessionKey(pair.chatId, pair.userId))
  /\ added' = Forget(sessions')
  /\ UNCHANGED now

\* cleanupExpiredSessions: every session not updated for more than the timeout is
\* deleted.
cleanupExpiredSessions ==
  /\ sessions' = [key \in {k \in DOMAIN sessions :
                              ~(now - sessions[k].updatedAt > SESSION_TIMEOUT_MS)}
                    |-> sessions[key]]
  /\ added' = Forget(sessions')
  /\ UNCHANGED now

\* Time passes.
Tick ==
  /\ now < MaxClock * CleanupIntervalMs
  /\ now' = now + CleanupIntervalMs
  /\ UNCHANGED <<sessions, added>>

\* ===================================================================
\* Part II: the im.message.receive_v1 handler
\* ===================================================================

\* ------------------------------------------------------------ the event
\* The mention key of the bot and that of another user, as they stand in the text.
BotKey == "@_user_1"

OtherKey == "@_user_2"

BotMention == [key |-> BotKey, isBot |-> TRUE]

OtherMention == [key |-> OtherKey, isBot |-> FALSE]

\* message.mentions: absent, or a list
Absent == [present |-> FALSE, list |-> <<>>]

Mentions(list) == [present |-> TRUE, list |-> list]

MentionLists ==
  {Absent, Mentions(<<>>), Mentions(<<OtherMention>>), Mentions(<<BotMention>>)}

\* What a mention list holds, for the observation of an invocation
MentionClass(mentions) ==
  IF ~mentions.present THEN "absent"
  ELSE IF mentions.list = <<>> THEN "empty"
  ELSE IF \E i \in 1..Len(mentions.list) : mentions.list[i].isBot THEN "bot"
  ELSE "other"

\* message.chat_type: "p2p", or a chat of several
ChatTypes == {"p2p", "group"}

\* parsed.text as a list of tokens: words, white space, mention keys
Texts == {<<>>, <<" ">>, <<"hi">>, <<BotKey>>, <<"/help">>, <<"/clear">>}

WhiteSpace == {" ", "\n"}

\* message.message_type with message.content: whether JSON.parse accepts the content
\* and, for a text message, the text in it; for a voice message, whether the content
\* names a file_key
Contents ==
  {[message_type |-> "text", contentOk |-> TRUE, text |-> t, fileKey |-> FALSE] :
     t \in Texts}
  \cup {[message_type |-> k, contentOk |-> ok, text |-> <<>>, fileKey |-> FALSE] :
          k \in {"text", "image", "file", "audio"}, ok \in {FALSE}}
  \cup {[message_type |-> k, contentOk |-> TRUE, text |-> <<>>, fileKey |-> FALSE] :
          k \in {"image", "file", "audio", "post"}}
  \cup {[message_type |-> "audio", contentOk |-> TRUE, text |-> <<>>,
          fileKey |-> TRUE]}

\* A field of the event that the handler returned before reading
Unread == "unread"

\* message.chat_id with sender.sender_id.open_id: the events the handler is
\* followed on come from one sender in one chat.
EventPairs == {[chatId |-> <<"a">>, userId |-> <<"b", "c">>]}

\* ------------------------------------------------------- the pure steps
\* const eventId = data.event_id || data.header?.event_id   ("" when both are absent
\* or empty)
EventIdOf(event_id, header_id) == IF event_id # "" THEN event_id ELSE header_id

\* if (eventId && processedEvents.has(eventId)) return
IsDuplicate(processed, eventId) == eventId # "" /\ eventId \in processed

\* if (eventId) processedEvents.add(eventId)
BadRecordEvent(processed, eventId) == processed
BadRecordAlways(processed, eventId) == processed \cup {eventId}
RecordEvent(processed, eventId) ==
  IF eventId # "" THEN processed \cup {eventId} ELSE processed

\* sender.sender_type === 'bot'
BadIsBotSender(senderType) == FALSE
IsBotSender(senderType) == senderType = "bot"

\* message.chat_type === 'p2p' ? 'direct' : 'group'   ('dm' in channel.ts)
ChatKind(chatType) == IF chatType = "p2p" THEN "direct" ELSE "group"

\* requireMention !== false
BadMentionRequired(req) == req = "true"
MentionRequired(req) == req # "false"

\* message.mentions && message.mentions.length > 0
HasMention(mentions) == mentions.present /\ Len(mentions.list) > 0

\* if (chatType === 'group' && requireMention !== false) { if (!hasMention) return }
ChecksMention(chatType, req) == ChatKind(chatType) = "group" /\ MentionRequired(req)

RejectsForMention(chatType, req, mentions) ==
  ChecksMention(chatType, req) /\ ~HasMention(mentions)

\* String.prototype.replace(key, ''): the first occurrence goes
RECURSIVE RemoveFirst(_, _)
RemoveFirst(text, key) ==
  IF text = <<>> THEN <<>>
  ELSE IF Head(text) = key THEN Tail(text)
  ELSE <<Head(text)>> \o RemoveFirst(Tail(text), key)

RECURSIVE TrimStart(_)
TrimStart(text) ==
  IF text # <<>> /\ Head(text) \in WhiteSpace THEN TrimStart(Tail(text)) ELSE text

RECURSIVE TrimEnd(_)
TrimEnd(text) ==
  IF text # <<>> /\ text[Len(text)] \in WhiteSpace
    THEN TrimEnd(SubSeq(text, 1, Len(text) - 1))
    ELSE text

\* String.prototype.trim()
Trim(text) == TrimEnd(TrimStart(text))

\* for (const mention of message.mentions) text = text.replace(mention.key, '').trim()
RECURSIVE StripKeys(_, _)
StripKeys(text, list) ==
  IF list = <<>> THEN text
  ELSE StripKeys(Trim(RemoveFirst(text, Head(list).key)), Tail(list))

\* if (message.mentions) { for ... }
StripMentions(text, mentions) ==
  IF mentions.present THEN StripKeys(text, mentions.list) ELSE text

\* content.startsWith('/')
StartsWithSlash(text) == text # <<>> /\ Head(text) \in {"/help", "/clear", "/model"}

\* What the handler does with an admitted event, up to its first await: the outcome
\* and the await it is suspended at.
Step(o, at) == [outcome |-> o, pc |-> at]

\* part_001 handleMessageReceive, lines 122-177
ParseRuntime(c, mentions) ==
  IF c.message_type \in {"text", "image", "file"} /\ ~c.contentOk
    THEN Step("error", "none")
  ELSE IF c.message_type = "text" /\ Trim(StripMentions(c.text, mentions)) = <<>>
    THEN Step("empty", "none")
  ELSE Step("admitted", "dispatch")

\* channel.ts handler, lines 352-433.  A voice message is downloaded and recognised
\* when voiceEnabled is true, its content parses and names a file_key (a content
\* that does not parse is caught at 381, one without a file_key gets a label at 380,
\* and the handler goes on with the label for text).
BadParseChannel(c, mentions, voice) ==
  IF c.message_type \in {"text", "file"} /\ ~c.contentOk
    THEN Step("error", "none")
  ELSE IF c.message_type = "audio" /\ voice /\ c.contentOk /\ c.fileKey
    THEN Step("admitted", "voice")
  ELSE Step("admitted", "placeholder")
ParseChannel(c, mentions, voice) ==
  IF c.message_type \in {"text", "file"} /\ ~c.contentOk
    THEN Step("error", "none")
  ELSE IF c.message_type = "text" /\ Trim(StripMentions(c.text, mentions)) = <<>>
    THEN Step("empty", "none")
  ELSE IF c.message_type = "audio" /\ voice /\ c.contentOk /\ c.fileKey
    THEN Step("admitted", "voice")
  ELSE Step("admitted", "placeholder")

\* event.ts lines 81-89 and message.ts handleMessage, lines 15-145: a content that
\* does not parse is answered with the error text, a file or another kind with a
\* notice, a command with its reply; an image is downloaded first.
ParseDispatcher(c, mentions) ==
  IF c.message_type \in {"text", "image", "file"} /\ ~c.contentOk
    THEN Step("admitted", "reply")
  ELSE IF c.message_type = "image" THEN Step("admitted", "download")
  ELSE IF c.message_type # "text" THEN Step("admitted", "reply")
  ELSE IF StartsWithSlash(StripMentions(c.text, mentions))
    THEN Step("admitted", "reply")
  ELSE IF Trim(StripMentions(c.text, mentions)) = <<>> THEN Step("empty", "none")
  ELSE Step("admitted", "backend")

\* What the dispatcher's invocation does to the history before its first await:
\* addMessage at message.ts 88 on the way to the backend (getMessages at 91 then
\* finds the session), clearSession at 156 for the command "/clear"
\* (content.split(' ')[0] is the first token).
SessionWrite(version, c, mentions) ==
  IF version # "dispatcher" THEN "none"
  ELSE IF ParseDispatcher(c, mentions).pc = "backend" THEN "addMessage"
  ELSE IF /\ c.message_type = "text"
          /\ c.contentOk
          /\ StartsWithSlash(StripMentions(c.text, mentions))
          /\ Head(StripMentions(c.text, mentions)) = "/clear"
    THEN "clearSession"
  ELSE "none"

Parse(version, voice, c, mentions) ==
  IF version = "runtime" THEN ParseRuntime(c, mentions)
  ELSE IF version = "channel" THEN ParseChannel(c, mentions, voice)
  ELSE ParseDispatcher(c, mentions)

\* ------------------------------------------------------------ the turns
\* turns is a bag: each suspended invocation is [eventId, pc, pair], the pair being
\* the chat and the sender of its event.
RECURSIVE BagSize(_)
BagSize(bag) ==
  IF DOMAIN bag = {} THEN 0
  ELSE LET t == CHOOSE x \in DOMAIN bag : TRUE
       IN bag[t] + BagSize([x \in (DOMAIN bag) \ {t} |-> bag[x]])

TurnCount == BagSize(turns)

AddTurn(bag, t) ==
  IF t \in DOMAIN bag THEN [bag EXCEPT ![t] = @ + 1]
  ELSE [x \in (DOMAIN bag) \cup {t} |-> IF x = t THEN 1 ELSE bag[x]]

RemoveTurn(bag, t) ==
  IF bag[t] > 1 THEN [bag EXCEPT ![t] = @ - 1]
  ELSE [x \in (DOMAIN bag) \ {t} |-> bag[x]]

MoveTurn(bag, t, at) == AddTurn(RemoveTurn(bag, t), [t EXCEPT !.pc = at])

\* The text of a text message as the handler has it after the mentions loop, or
\* that the handler did not get there.
NotRead == [read |-> FALSE, text |-> <<>>]

TextRead(c, mentions) ==
  IF c.message_type = "text" /\ c.contentOk
    THEN [read |-> TRUE, text |-> StripMentions(c.text, mentions)]
    ELSE NotRead

\* The observation of one invocation.
Seen(o, noId, susp, sender, chat, mentions, txt, turned) ==
  [made |-> TRUE, outcome |-> o, noId |-> noId, whileSuspended |-> susp, sender_type |-> sender,
   chat_type |-> chat, mentions |-> mentions, normalized |-> txt,
   started |-> turned]

\* A handler that records the id only of an event it admits.
LateFinish(eventId, o, at, sender, chat, mentions, txt, pair) ==
  /\ at # "none" => TurnCount < MaxTurns
  /\ processedEvents' =
       IF o = "duplicate" \/ at = "none" THEN processedEvents
       ELSE RecordEvent(processedEvents, eventId)
  /\ passed' =
       IF o = "duplicate" \/ eventId = "" THEN passed
       ELSE [passed EXCEPT ![eventId] = IF @ > 1 THEN @ ELSE @ + 1]
  /\ turns' = IF at = "none" THEN turns
              ELSE AddTurn(turns, [eventId |-> eventId, pc |-> at, pair |-> pair])
  /\ last' = Seen(o, eventId = "", \E t \in DOMAIN turns : t.eventId = eventId,
                  sender, chat, mentions, txt, turns' # turns)
  /\ UNCHANGED <<variant, requireMention, voiceEnabled>>

\* The invocation returns (or is suspended at `at`) with outcome o.
Finish(eventId, o, at, sender, chat, mentions, txt, pair) ==
  /\ at # "none" => TurnCount < MaxTurns
  /\ processedEvents' =
       IF o = "duplicate" THEN processedEvents
       ELSE RecordEvent(processedEvents, eventId)
  /\ passed' =
       IF o = "duplicate" \/ eventId = "" THEN passed
       ELSE [passed EXCEPT ![eventId] = IF @ > 1 THEN @ ELSE @ + 1]
  /\ turns' = IF at = "none" THEN turns
              ELSE AddTurn(turns, [eventId |-> eventId, pc |-> at, pair |-> pair])
  /\ last' = Seen(o, eventId = "", \E t \in DOMAIN turns : t.eventId = eventId,
                  sender, chat, mentions, txt, turns' # turns)
  /\ UNCHANGED <<variant, requireMention, voiceEnabled>>

\* The text of a message is the one place past the mention check where the mentions
\* are read.
ReadsMentions(c) == c.message_type = "text" /\ c.contentOk

\* What the handler makes of a content, with the mentions it read on the way.
Made(version, voice, c, mentions, seen) ==
  LET r == Parse(version, voice, c, mentions)
  IN  [outcome |-> r.outcome, pc |-> r.pc, mentions |-> seen,
       normalized |-> TextRead(c, mentions),
       write |-> SessionWrite(version, c, mentions)]

\* The handler past the sender check: the mention check, where the version and the
\* chat have one, then the content.  The results of all the events of one chat type,
\* each with what the handler read of the event.
Admitted(version, req, voice, chat_type) ==
  IF version # "dispatcher" /\ ChecksMention(chat_type, req)
    THEN {IF RejectsForMention(chat_type, req, mentions)
            THEN [outcome |-> "nomention", pc |-> "none",
                  mentions |-> MentionClass(mentions), normalized |-> NotRead,
                  write |-> "none"]
            ELSE Made(version, voice, c, mentions, MentionClass(mentions)) :
          mentions \in MentionLists, c \in Contents}
    ELSE {IF ReadsMentions(c)
            THEN Made(version, voice, c, mentions, MentionClass(mentions))
            ELSE Made(version, voice, c, Absent, Unread) :
          mentions \in MentionLists, c \in Contents}

\* The same, worked out once for every configuration.
AdmittedBy ==
  [version \in {"dispatcher", "runtime", "channel"},
   req \in {"true", "false", "unset"}, voice \in BOOLEAN, chat_type \in ChatTypes |->
     Admitted(version, req, voice, chat_type)]

\* An admitted event, of any chat and sender: the handler's first step and, in the
\* dispatcher, what handleMessage writes to the history on the way.  The chat and
\* the sender are drawn where the invocation goes on to use them.
Admit(eventId, sender_type) ==
  \E chat_type \in ChatTypes :
    \E r \in AdmittedBy[variant, requireMention, voiceEnabled, chat_type] :
    \E pair \in IF r.pc = "none" THEN {Unread} ELSE EventPairs :
      /\ r.pc \in {"backend", "download"} => Len(added[pair]) < MaxSaid
      /\ Finish(eventId, r.outcome, r.pc, sender_type, chat_type, r.mentions,
                r.normalized, pair)
      /\ IF r.write = "addMessage" THEN addMessage(pair)
         ELSE IF r.write = "clearSession" THEN clearSession(pair)
         ELSE UNCHANGED historyVars

\* The handler returns before it reads the content.
Stop(eventId, o, sender_type) ==
  /\ Finish(eventId, o, "none", sender_type, Unread, Unread, NotRead, Unread)
  /\ UNCHANGED historyVars

\* The handler registered for im.message.receive_v1, from its entry to its first
\* await (event.ts 49-89, part_001 83-177, channel.ts 332-433).  The fields of the
\* event are drawn as the handler reads them.
handleMessageReceive ==
  \E event_id \in {"", "e1"} :
  \E header_id \in IF event_id # "" THEN {Unread} ELSE {"", "e2"} :
    LET eventId == EventIdOf(event_id, header_id) IN
    IF IsDuplicate(processedEvents, eventId)
      THEN Stop(eventId, "duplicate", Unread)
      ELSE \E shape \in {"ok", "no_message", "no_sender"} :
        IF shape # "ok"
          THEN Stop(eventId, "invalid", Unread)
          ELSE \E sender_type \in {"user", "bot"} :
            IF IsBotSender(sender_type)
              THEN Stop(eventId, "bot", sender_type)
              ELSE Admit(eventId, sender_type)

\* setInterval(() => processedEvents.clear(), 5 * 60 * 1000)
BadWindowReset ==
  /\ processedEvents' = processedEvents \ {"e1"}
  /\ passed' = [passed EXCEPT !["e1"] = 0]
  /\ UNCHANGED <<variant, requireMention, voiceEnabled, turns, last>>
WindowReset ==
  /\ cleanupInterval
  /\ processedEvents' = {}
  /\ passed' = [i \in DOMAIN passed |-> 0]
  /\ UNCHANGED <<variant, requireMention, voiceEnabled, turns, last>>

\* A suspended invocation goes on to its next await.
Advance(from, to) ==
  /\ \E t \in DOMAIN turns :
       /\ t.pc = from
       /\ turns' = MoveTurn(turns, t, to)
  /\ UNCHANGED <<variant, requireMention, voiceEnabled, processedEvents, passed,
                 last>>

\* A suspended invocation returns.
Return(from) ==
  /\ \E t \in DOMAIN turns :
       /\ t.pc = from
       /\ turns' = RemoveTurn(turns, t)
  /\ UNCHANGED <<variant, requireMention, voiceEnabled, processedEvents, passed,
                 last>>

\* channel.ts 366-385: the speech recognition settles; whatever it gives (a text or
\* one of the failure labels), the handler goes on, unless the text is blank (398)
VoiceDone == Advance("voice", "placeholder") \/ Return("voice")

\* channel.ts 405-433: the "thinking" placeholder is sent, or its failure logged
PlaceholderDone == Advance("placeholder", "dispatch")

\* part_001 177, channel.ts 596-616: the backend dispatch, with the replies it
\* delivers, settles
DispatchDone == Return("dispatch")

\* A suspended invocation of the dispatcher goes on to its next await; when the
\* await it was suspended at resolved, it adds a message to its pair's history.
AdvanceAdding(from, to, failed) ==
  /\ \E t \in DOMAIN turns :
       /\ t.pc = from
       /\ \E ok \in BOOLEAN :
            IF ok THEN /\ turns' = MoveTurn(turns, t, to)
                       /\ addMessage(t.pair)
                  ELSE /\ turns' = MoveTurn(turns, t, failed)
                       /\ UNCHANGED historyVars
  /\ UNCHANGED <<variant, requireMention, voiceEnabled, processedEvents, passed,
                 last>>

\* message.ts 44-46, 69-107: the image download settles; the image is added to the
\* history (88) and sent to the backend, a failure is answered at 136
DownloadDone == AdvanceAdding("download", "backend", "reply")

\* message.ts 104-131: the backend answers and its answer is added to the history
\* (122), or it fails (109-114); either way a reply is sent
BackendDone == AdvanceAdding("backend", "reply", "reply")

\* message.ts 47-58, 109-112, 126-144: the reply is sent (a failure is answered once
\* more at 137, and logged at 142)
ReplyDone == Return("reply")

\* Part II at rest, for the specifications of Part I.
InboundIdle ==
  /\ variant = "channel"
  /\ requireMention = "unset"
  /\ voiceEnabled = FALSE
  /\ processedEvents = {}
  /\ turns = EmptyMap
  /\ passed = [i \in {"e1", "e2"} |-> 0]
  /\ last = Seen("none", FALSE, FALSE, Unread, Unread, Unread, NotRead, FALSE)

\* ===================================================================
\* Part III: outbound text
\* ===================================================================

\* The characters of a reply: letters, a space, a newline.
Chars == {"a", "b", " ", "\n"}

\* The texts of at most n characters.
RECURSIVE TextsUpTo(_)
TextsUpTo(n) ==
  IF n = 0 THEN {<<>>}
  ELSE LET shorter == TextsUpTo(n - 1)
       IN shorter \cup {Append(t, c) : t \in {x \in shorter : Len(x) = n - 1},
                                        c \in Chars}

\* String.prototype.lastIndexOf(ch, fromIndex): the last index (from 0) at or before
\* fromIndex where ch stands, or -1.
RECURSIVE LastIndexOf(_, _, _)
LastIndexOf(str, ch, fromIndex) ==
  LET from == Min(fromIndex, Len(str) - 1)
  IN IF from < 0 THEN 0 - 1
     ELSE IF str[from + 1] = ch THEN from
     ELSE LastIndexOf(str, ch, from - 1)

\* A threshold that takes any offset found.
BadTooEarly(breakPoint, limit) == breakPoint = 0 - 1

\* A search that prefers the space.
SpaceFirstBreakPoint(remaining, limit) ==
  LET atSpace == LastIndexOf(remaining, " ", limit)
      atNewline == IF BadTooEarly(atSpace, limit) \/ 2 * atSpace < limit
                     THEN LastIndexOf(remaining, "\n", limit)
                     ELSE atSpace
  IN IF BadTooEarly(atNewline, limit) \/ 2 * atNewline < limit THEN limit ELSE atNewline

\* breakPoint === -1 || breakPoint < limit * 0.5
TooEarly(breakPoint, limit) == breakPoint = 0 - 1 \/ 2 * breakPoint < limit

\* part_001 443-451: break at the last newline at or before limit, else at the last
\* space, else at limit.
BadBreakPoint(remaining, limit) == limit + 1
BreakPoint(remaining, limit) ==
  LET atNewline == LastIndexOf(remaining, "\n", limit)
      atSpace == IF TooEarly(atNewline, limit)
                   THEN LastIndexOf(remaining, " ", limit)
                   ELSE atNewline
  IN IF TooEarly(atSpace, limit) THEN limit ELSE atSpace

\* remaining.substring(0, breakPoint)
ChunkAt(remaining, breakPoint) == SubSeq(remaining, 1, breakPoint)

\* remaining.substring(breakPoint).trimStart()
BadRestAt(remaining, breakPoint) ==
  SubSeq(remaining, breakPoint + 2, Len(remaining))
RestAt(remaining, breakPoint) ==
  TrimStart(SubSeq(remaining, breakPoint + 1, Len(remaining)))

\* part_001 437-455: the while loop of chunkText
RECURSIVE ChunkLoop(_, _, _)
ChunkLoop(remaining, limit, acc) ==
  IF Len(remaining) = 0 THEN acc
  ELSE IF Len(remaining) <= limit THEN Append(acc, remaining)
  ELSE LET breakPoint == BreakPoint(remaining, limit)
       IN ChunkLoop(RestAt(remaining, breakPoint), limit,
                    Append(acc, ChunkAt(remaining, breakPoint)))

\* part_001 429-458
BadChunkText(str, limit) == <<str>>
chunkText(str, limit) ==
  IF Len(str) <= limit THEN <<str>> ELSE ChunkLoop(str, limit, <<>>)

\* part_001 430-435: a text within the limit is returned as it is; else the loop is
\* entered with remaining = text.
ChunkEnter ==
  /\ method = "chunkText.loop"
  /\ segPc = "input"
  /\ IF Len(replyText) <= textChunkLimit
       THEN chunks' = <<replyText>> /\ segPc' = "chunked" /\ UNCHANGED remainder
       ELSE chunks' = <<>> /\ remainder' = replyText /\ segPc' = "loop"
  /\ UNCHANGED <<replyText, textChunkLimit, method, activeClient, sendTo, replyTo,
                 outbox, result>>

\* part_001 437-457: one pass of while (remaining.length > 0), or its exit.
ChunkIterate ==
  /\ segPc = "loop"
  /\ IF Len(remainder) = 0
       THEN segPc' = "chunked" /\ UNCHANGED <<chunks, remainder>>
     ELSE IF Len(remainder) <= textChunkLimit
       THEN /\ chunks' = Append(chunks, remainder)
            /\ segPc' = "chunked"
            /\ UNCHANGED remainder
     ELSE LET breakPoint == BreakPoint(remainder, textChunkLimit) IN
          /\ chunks' = Append(chunks, ChunkAt(remainder, breakPoint))
          /\ remainder' = RestAt(remainder, breakPoint)
          /\ UNCHANGED segPc
  /\ UNCHANGED <<replyText, textChunkLimit, method, activeClient, sendTo, replyTo,
                 outbox, result>>

\* const chunks = this.chunkText(text, this.config.textChunkLimit || 4000)
Segment ==
  /\ segPc = "input"
  /\ chunks' = chunkText(replyText, textChunkLimit)
  /\ segPc' = "chunked"
  /\ UNCHANGED <<replyText, textChunkLimit, method, activeClient, sendTo, replyTo,
                 outbox, result>>

\* ------------------------------------------------- the outbound methods
\* The targets: <prefix><id>, the id possibly empty.
Targets == [prefix : {"user:", "group:", "chat:"}, id : {"", "x1"}]

\* to.match(/^group:(.+)$/)
GroupMatch(to) == to.prefix = "group:" /\ to.id # ""

\* to.match(/^user:(.+)$/)
UserMatch(to) == to.prefix = "user:" /\ to.id # ""

\* const chatId = groupMatch?.[1] || userMatch?.[1]   ("" when neither matches)
ChatIdOf(to) == IF GroupMatch(to) \/ UserMatch(to) THEN to.id ELSE ""

\* this.config.textChunkLimit || 4000   (0 stands for a limit that is not set)
EffectiveLimit(limit) == IF limit = 0 THEN defaultChunkLimit ELSE limit

\* One outbound call: im.message.reply or im.message.create with a text or an image,
\* or uploadImage; status is "pending", "ok" or "failed".
Issue(call, msgType, body) ==
  [call |-> call, msg_type |-> msgType, text |-> body, status |-> "pending"]

\* replyTo ? client.im.message.reply(...) : client.im.message.create(...)
TextCall(reply, body) ==
  Issue(IF reply THEN "reply" ELSE "create", "text", body)

\* The call awaited settles.
Settle(box, ok) ==
  [box EXCEPT ![Len(box)].status = IF ok THEN "ok" ELSE "failed"]

\* What a rejected await becomes: the catch clause returns { ok: false, error }.
BadCaught == "thrown"
Caught == "error"

\* The method returns (nothing outbound is pending).
Returned(r) ==
  /\ result' = r
  /\ segPc' = "returned"

\* part_001 sendText, 185-190: the text is cut and the first chunk is sent.
sendText ==
  /\ method = "runtime.sendText"
  /\ segPc = "input"
  /\ chunks' = chunkText(replyText, EffectiveLimit(textChunkLimit))
  /\ outbox' = <<TextCall(replyTo, chunks'[1])>>
  /\ segPc' = "awaiting"
  /\ UNCHANGED <<replyText, textChunkLimit, method, activeClient, sendTo, replyTo,
                 result>>

\* part_002 outbound.sendText, 63-69: without a runtime in the module an error is
\* returned at once; else sendText of the runtime held runs.
gatewaySendText ==
  /\ method = "gateway.sendText"
  /\ segPc = "input"
  /\ IF ~runtimeInstance
       THEN Returned("error") /\ UNCHANGED <<chunks, outbox>>
       ELSE /\ chunks' = chunkText(replyText, EffectiveLimit(textChunkLimit))
            /\ outbox' = <<TextCall(replyTo, chunks'[1])>>
            /\ segPc' = "awaiting"
            /\ UNCHANGED result
  /\ UNCHANGED <<replyText, textChunkLimit, method, activeClient, sendTo, replyTo>>

\* A loop that goes on to the next chunk after a failed send.
BadSendTextSettled ==
  /\ method = "runtime.sendText"
  /\ segPc = "awaiting"
  /\ \E ok \in BOOLEAN :
       LET box == Settle(outbox, ok) IN
       IF Len(box) < Len(chunks)
         THEN /\ outbox' = Append(box, TextCall(replyTo, chunks[Len(box) + 1]))
              /\ UNCHANGED <<segPc, result>>
       ELSE outbox' = box /\ Returned(IF ok THEN "ok" ELSE Caught)
  /\ UNCHANGED <<replyText, textChunkLimit, chunks, method, activeClient, sendTo,
                 replyTo>>

\* part_001 sendText, 190-218: the send awaited settles; the next chunk is sent, or
\* { ok: true } returned after the last, or { ok: false, error } on a failure.
sendTextSettled ==
  /\ method \in {"runtime.sendText", "gateway.sendText"}
  /\ segPc = "awaiting"
  /\ \E ok \in BOOLEAN :
       LET box == Settle(outbox, ok) IN
       IF ~ok THEN outbox' = box /\ Returned(Caught)
       ELSE IF Len(box) < Len(chunks)
         THEN /\ outbox' = Append(box, TextCall(replyTo, chunks[Len(box) + 1]))
              /\ UNCHANGED <<segPc, result>>
       ELSE outbox' = box /\ Returned("ok")
  /\ UNCHANGED <<replyText, textChunkLimit, chunks, method, activeClient, sendTo,
                 replyTo>>

\* channel.ts outbound.sendText, 679-711: no client or no chat id returns an error
\* at once; else the one message is sent.
channelSendText ==
  /\ method = "channel.sendText"
  /\ segPc = "input"
  /\ IF ~activeClient \/ ChatIdOf(sendTo) = ""
       THEN Returned(Caught) /\ UNCHANGED outbox
       ELSE /\ outbox' = <<TextCall(replyTo, replyText)>>
            /\ segPc' = "awaiting"
            /\ UNCHANGED result
  /\ UNCHANGED <<replyText, textChunkLimit, chunks, method, activeClient, sendTo,
                 replyTo>>

\* channel.ts outbound.sendText, 697-720
channelSendTextSettled ==
  /\ method = "channel.sendText"
  /\ segPc = "awaiting"
  /\ \E ok \in BOOLEAN :
       /\ outbox' = Settle(outbox, ok)
       /\ Returned(IF ok THEN "ok" ELSE Caught)
  /\ UNCHANGED <<replyText, textChunkLimit, chunks, method, activeClient, sendTo,
                 replyTo>>

\* channel.ts outbound.sendMedia, 723-745: no client or no chat id returns an error
\* at once; else the image is uploaded first.
channelSendMedia ==
  /\ method = "channel.sendMedia"
  /\ segPc = "input"
  /\ IF ~activeClient \/ ChatIdOf(sendTo) = ""
       THEN Returned(Caught) /\ UNCHANGED outbox
       ELSE /\ outbox' = <<Issue("uploadImage", "image", <<>>)>>
            /\ segPc' = "awaiting"
            /\ UNCHANGED result
  /\ UNCHANGED <<replyText, textChunkLimit, chunks, method, activeClient, sendTo,
                 replyTo>>

\* channel.ts outbound.sendMedia, 743-772: after the upload the image message is
\* created, then the text if there is one; activeClient.im on a client that
\* stopAccount has set to null throws inside the try.
channelSendMediaSettled ==
  /\ method = "channel.sendMedia"
  /\ segPc = "awaiting"
  /\ \E ok \in BOOLEAN :
       LET box == Settle(outbox, ok)
           was == outbox[Len(outbox)]
       IN IF ~ok THEN outbox' = box /\ Returned(Caught)
          ELSE IF was.call = "uploadImage"
            THEN IF activeClient
                   THEN /\ outbox' = Append(box, Issue("create", "image", <<>>))
                        /\ UNCHANGED <<segPc, result>>
                   ELSE outbox' = box /\ Returned(Caught)
          ELSE IF was.msg_type = "image" /\ replyText # <<>>
            THEN IF activeClient
                   THEN /\ outbox' = Append(box, Issue("create", "text", replyText))
                        /\ UNCHANGED <<segPc, result>>
                   ELSE outbox' = box /\ Returned(Caught)
          ELSE outbox' = box /\ Returned("ok")
  /\ UNCHANGED <<replyText, textChunkLimit, chunks, method, activeClient, sendTo,
                 replyTo>>

\* setStatus({ running, connected })
NoStatus == [reported |-> FALSE, running |-> FALSE, connected |-> FALSE]

Status(running, connected) ==
  [reported |-> TRUE, running |-> running, connected |-> connected]

\* The methods of the plugin of channel.ts (and of part_002, which shares its
\* gateway).
ChannelMethods == {"channel.sendText", "channel.sendMedia", "turn", "turn.part_002"}

\* What one call of startAccount, or of gateway.start, holds for itself:
\* channel.ts 310 abortSignal of its ctx, 325 const processedEvents, 328 const
\* cleanupInterval, 619 const wsClient; part_002 102 the new FeishuRuntime with its
\* interval, its record, its isRunning and its lark.WSClient.  The run started last
\* is in the variables of these names.
LastRun ==
  [cleanupInterval |-> cleanupInterval, wsClient |-> wsClient, ctx |-> ctx,
   aborted |-> aborted, isRunning |-> isRunning, processedEvents |-> processedEvents]

\* Every run started so far, the last one last.
AllRuns == IF wsClient = "null" THEN earlier ELSE Append(earlier, LastRun)

RunIds == 1 .. Len(AllRuns)

CtxsUsed == {AllRuns[i].ctx : i \in RunIds}

\* ctx.abortSignal of c has fired.
Fired(c) == \E i \in RunIds : AllRuns[i].ctx = c /\ AllRuns[i].aborted

\* The runs become rs; no step of a start or a shutdown writes a record of ids.
SetRuns(rs) ==
  /\ earlier' = SubSeq(rs, 1, Len(rs) - 1)
  /\ cleanupInterval' = rs[Len(rs)].cleanupInterval
  /\ wsClient' = rs[Len(rs)].wsClient
  /\ ctx' = rs[Len(rs)].ctx
  /\ aborted' = rs[Len(rs)].aborted
  /\ isRunning' = rs[Len(rs)].isRunning

\* channel.ts gateway.startAccount, 310-626, up to await wsClient.start(): the
\* client for outbound calls is created (321), a record of ids of its own and the
\* interval that clears it (325-328), and the socket client (619-626).  Nothing
\* tests whether another run is starting or open, nor whether the signal of the ctx
\* has fired: the interval, the record and the socket client of an earlier run stay
\* with that run.  The ctx is the one of an earlier run or a new one.
startAccount ==
  /\ method \in ChannelMethods
  /\ Len(AllRuns) < MaxRuns
  /\ \E c \in 1 .. Cardinality(CtxsUsed) + 1 :
       /\ ctx' = c
       /\ aborted' = Fired(c)
  /\ earlier' = AllRuns
  /\ activeClient' = TRUE
  /\ processedEvents' = {}
  /\ passed' = [i \in DOMAIN passed |-> 0]
  /\ cleanupInterval' = TRUE
  /\ wsClient' = "starting"
  /\ shutdown' = "none"
  /\ UNCHANGED <<method, outbox, isRunning, status, gatewayVars, variant,
                 requireMention, voiceEnabled, turns, last>>

\* channel.ts 626-639: wsClient.start() of one of the runs settles.  When it
\* resolves the status is reported running and connected, whatever was reported
\* meanwhile, and the abort listener of that run is registered; when it rejects
\* startAccount throws, leaving the client and the interval.
startAccountSettled ==
  /\ method \in ChannelMethods
  /\ \E i \in RunIds :
       /\ AllRuns[i].wsClient = "starting"
       /\ \E ok \in BOOLEAN :
            IF ok THEN /\ SetRuns([AllRuns EXCEPT ![i].wsClient = "open"])
                       /\ status' = Status(TRUE, TRUE)
                  ELSE /\ SetRuns([AllRuns EXCEPT ![i].wsClient = "failed"])
                       /\ UNCHANGED status
  /\ UNCHANGED <<method, outbox, activeClient, gatewayVars, shutdown>>

\* channel.ts stopAccount, 643-646: activeClient = null and the status is reported;
\* the interval and the socket client are local to startAccount.
stopAccount ==
  /\ method \in ChannelMethods
  /\ activeClient' = FALSE
  /\ status' = Status(FALSE, FALSE)
  /\ shutdown' = "stopAccount"
  /\ UNCHANGED <<method, outbox, cleanupInterval, wsClient, isRunning, aborted, ctx,
                 earlier, gatewayVars>>

\* The runs after the signal of c fired: the listener of channel.ts 632-638 of
\* every run of that ctx whose start had resolved before clears the interval and
\* closes the socket client of its own run.  A listener added to a signal that has
\* fired is never called.
AfterAbort(c) ==
  [i \in RunIds |->
     IF AllRuns[i].ctx # c THEN AllRuns[i]
     ELSE IF AllRuns[i].wsClient = "open"
       THEN [AllRuns[i] EXCEPT !.cleanupInterval = FALSE, !.wsClient = "closed",
                               !.aborted = TRUE]
     ELSE [AllRuns[i] EXCEPT !.aborted = TRUE]]

\* The abort signal of a ctx fires, once.  The listener of a run is registered from
\* the moment its wsClient.start() resolved ({ once: true }); a run still starting
\* has none, and the one it registers afterwards is never called.  Each listener
\* that runs sets the module's activeClient to null and reports the status, whichever
\* run created the client.
abort ==
  /\ method \in ChannelMethods
  /\ \E c \in CtxsUsed :
       /\ ~Fired(c)
       /\ SetRuns(AfterAbort(c))
       /\ IF \E i \in RunIds : AllRuns[i].ctx = c /\ AllRuns[i].wsClient = "open"
            THEN /\ activeClient' = FALSE
                 /\ status' = Status(FALSE, FALSE)
                 /\ shutdown' = "abort"
            ELSE /\ shutdown' = "abort.unheard"
                 /\ UNCHANGED <<activeClient, status>>
  /\ UNCHANGED <<method, outbox, gatewayVars>>

\* setInterval(() => processedEvents.clear(), ...) of a run started before the
\* last (channel.ts 328, part_001 45-47): it clears the record of its own run.
EarlierWindowReset ==
  /\ \E i \in 1 .. Len(earlier) :
       /\ earlier[i].cleanupInterval
       /\ earlier' = [earlier EXCEPT ![i].processedEvents = {}]
  /\ UNCHANGED <<method, outbox, activeClient, cleanupInterval, wsClient, isRunning,
                 status, aborted, ctx, gatewayVars, shutdown>>

\* part_001 start, 49-67, called on one FeishuRuntime, up to await
\* this.wsClient.start(): if (this.isRunning) return; a socket client is created
\* and replaces the one in this.wsClient.  isRunning is set after the await, so a
\* second call made before the first settled creates a second client.  The
\* interval, the record and isRunning are the runtime's, not the client's.
start ==
  /\ method = "runtime.sendText"
  /\ ~isRunning
  /\ Len(AllRuns) < MaxRuns
  /\ earlier' = [i \in RunIds |->
                   [AllRuns[i] EXCEPT !.cleanupInterval = FALSE, !.isRunning = FALSE,
                                      !.processedEvents = {}]]
  /\ wsClient' = "starting"
  /\ shutdown' = "none"
  /\ UNCHANGED <<method, outbox, activeClient, cleanupInterval, isRunning, status,
                 aborted, ctx, gatewayVars>>

\* A lark.WSClient once its start() has settled: what close() did to it meanwhile
\* stays.
Settled(client, ok) ==
  IF client = "closing" THEN "closed" ELSE IF ok THEN "open" ELSE "failed"

\* part_001 63-66: this.wsClient.start() of one of the calls settles; isRunning =
\* true when it resolved, whichever client this.wsClient holds by then.
startSettled ==
  /\ method = "runtime.sendText"
  /\ \E i \in RunIds :
       /\ AllRuns[i].wsClient \in {"starting", "closing"}
       /\ \E ok \in BOOLEAN :
            /\ IF i = Len(AllRuns)
                 THEN /\ wsClient' = Settled(wsClient, ok)
                      /\ UNCHANGED earlier
                 ELSE /\ earlier' =
                           [earlier EXCEPT ![i].wsClient = Settled(@, ok)]
                      /\ UNCHANGED wsClient
            /\ isRunning' = (ok \/ isRunning)
  /\ UNCHANGED <<method, outbox, activeClient, cleanupInterval, status, aborted, ctx,
                 gatewayVars, shutdown>>

\* close() of a lark.WSClient: one whose start is still awaited goes on to settle.
Closed(client) ==
  IF client = "starting" THEN "closing"
  ELSE IF client \in {"open", "failed"} THEN "closed"
  ELSE client

\* part_001 stop, 69-81: if (!this.isRunning) return; the socket client in
\* this.wsClient, the one created last, is closed and forgotten, isRunning = false.
\* The interval of the constructor (45-47) has no handle; this.client stays, and so
\* does every socket client created before the last.
stop ==
  /\ method = "runtime.sendText"
  /\ isRunning
  /\ wsClient' = Closed(wsClient)
  /\ isRunning' = FALSE
  /\ shutdown' = "stop"
  /\ UNCHANGED <<method, outbox, activeClient, cleanupInterval, status, aborted, ctx,
                 earlier, gatewayVars>>

\* part_002 gateway.start, 90-105, for a configured channel, up to the await of
\* runtime.start(): a new FeishuRuntime is created on every call, with its client,
\* its record and its interval (part_001 25-47), the module holds it from now on
\* (setRuntime), and its start() creates its socket client.  The runtime held
\* before, with its interval and its socket client, is referred to no more.
gatewayStart ==
  /\ method = "gateway.sendText"
  /\ Len(AllRuns) < MaxRuns
  /\ earlier' = AllRuns
  /\ runtimeInstance' = TRUE
  /\ activeClient' = TRUE
  /\ processedEvents' = {}
  /\ passed' = [i \in DOMAIN passed |-> 0]
  /\ cleanupInterval' = TRUE
  /\ wsClient' = "starting"
  /\ isRunning' = FALSE
  /\ shutdown' = "none"
  /\ UNCHANGED <<method, outbox, status, aborted, ctx, stopping, variant,
                 requireMention, voiceEnabled, turns, last>>

\* part_001 63-66 under part_002 104: the start of one of the runtimes settles, and
\* isRunning of that runtime is set when it resolved, whether the module still holds
\* the runtime or not.
gatewayStartSettled ==
  /\ method = "gateway.sendText"
  /\ \E i \in RunIds :
       /\ AllRuns[i].wsClient \in {"starting", "closing"}
       /\ \E ok \in BOOLEAN :
            SetRuns([AllRuns EXCEPT ![i].wsClient = Settled(@, ok),
                                    ![i].isRunning = (ok \/ @)])
  /\ UNCHANGED <<method, outbox, activeClient, status, gatewayVars, shutdown>>

\* part_002 gateway.stop, 107-110, up to await runtime.stop(): if the module holds
\* a runtime its stop() runs (part_001 69-81), which returns at once when its start
\* has not resolved yet.
gatewayStop ==
  /\ method = "gateway.sendText"
  /\ runtimeInstance
  /\ stopping < MaxStops
  /\ IF isRunning
       THEN wsClient' = Closed(wsClient) /\ isRunning' = FALSE
       ELSE UNCHANGED <<wsClient, isRunning>>
  /\ stopping' = stopping + 1
  /\ UNCHANGED <<method, outbox, activeClient, cleanupInterval, status, aborted, ctx,
                 earlier, runtimeInstance, shutdown>>

\* part_002 111: setRuntime(null) after the await, whichever runtime the module
\* holds by then.
gatewayStopSettled ==
  /\ method = "gateway.sendText"
  /\ stopping > 0
  /\ stopping' = stopping - 1
  /\ runtimeInstance' = FALSE
  /\ shutdown' = "gateway.stop"
  /\ UNCHANGED <<method, outbox, activeClient, cleanupInterval, wsClient, isRunning,
                 status, aborted, ctx, earlier>>

\* part_000 main(), 21-23, with FeishuWebSocketClient.start of event.ts 110-122:
\* await feishuWSClient.start(), called once.
MainStart ==
  /\ method = "main"
  /\ wsClient = "created"
  /\ wsClient' = "starting"
  /\ UNCHANGED <<method, outbox, activeClient, cleanupInterval, isRunning, status,
                 aborted, ctx, earlier, gatewayVars, shutdown>>

\* event.ts 113-121: the start settles; a rejection is logged and thrown again, and
\* main() ends the process.
MainStartSettled ==
  /\ method = "main"
  /\ wsClient = "starting"
  /\ \E ok \in BOOLEAN : wsClient' = IF ok THEN "open" ELSE "failed"
  /\ UNCHANGED <<method, outbox, activeClient, cleanupInterval, isRunning, status,
                 aborted, ctx, earlier, gatewayVars, shutdown>>

\* The chats whose turns are followed together, and the event of each.
Chats == {"c1", "c2"}

EventOf(c) == IF c = "c1" THEN "e1" ELSE "e2"

\* An invocation of the handler that has not begun: where it stands, whether the
\* placeholder is there (thinkingMsgId), whether the card is (cardMessageId),
\* firstReply, the deliver calls made, those whose call carrying the text was
\* issued, the failures met, and whether the other chat's turn was in flight.
NoFlight ==
  [pc |-> "idle", thinking |-> FALSE, card |-> FALSE, firstReply |-> TRUE,
   delivered |-> 0, issued |-> 0, failures |-> {}, overlapped |-> FALSE]

\* Parts VII and VIII at rest.
RestIdle ==
  /\ flight = [c \in Chats |-> NoFlight]
  /\ sessions = EmptyMap
  /\ now = 0
  /\ added = [pair \in Pairs |-> <<>>]
  /\ remainder = <<>>

\* No run yet.
NoRuns ==
  /\ aborted = FALSE
  /\ ctx = 1
  /\ earlier = <<>>
  /\ runtimeInstance = FALSE
  /\ stopping = 0

\* The channel before start.
LifeIdle ==
  /\ cleanupInterval = FALSE
  /\ wsClient = "null"
  /\ isRunning = FALSE
  /\ status = NoStatus
  /\ NoRuns
  /\ shutdown = "none"

\* event.ts 44-46, 103, 125-126: the module loaded, with the interval of
\* FeishuEventDispatcher armed and the lark.WSClient of FeishuWebSocketClient
\* created.
Loaded ==
  /\ cleanupInterval = TRUE
  /\ wsClient = "created"
  /\ isRunning = FALSE
  /\ status = NoStatus
  /\ NoRuns
  /\ shutdown = "none"

\* part_001 constructor, 30-47: the interval is armed, the socket client is not
\* created yet.
Constructed ==
  /\ cleanupInterval = TRUE
  /\ wsClient = "null"
  /\ isRunning = FALSE
  /\ status = NoStatus
  /\ NoRuns
  /\ shutdown = "none"

\* The channel started, the state in which events reach the handler: part_001
\* constructor and start (45-67), channel.ts 325-628, event.ts 44-46 and 110-117
\* (the start that main() awaits has resolved).
Started(version) ==
  /\ cleanupInterval = TRUE
  /\ wsClient = "open"
  /\ isRunning = (version = "runtime")
  /\ status = IF version = "channel" THEN Status(TRUE, TRUE) ELSE NoStatus
  /\ NoRuns
  /\ shutdown = "none"

\* The outbound methods at rest.
SendIdle ==
  /\ replyText = <<>>
  /\ textChunkLimit = 1
  /\ chunks = <<>>
  /\ segPc = "input"
  /\ sendTo = [prefix |-> "chat:", id |-> ""]
  /\ replyTo = FALSE
  /\ result = "none"

\* ===================================================================
\* Part IV: the reply of one turn (channel.ts 400-616)
\* ===================================================================

\* accumulatedText += '\n\n---\n\n' + replyText
Divider == "\n\n---\n\n"

\* The texts of the payloads of a turn are told apart by the order they come in:
\* the text of the first payload is "A", of the second "B", and so on.
TextNames == <<"A", "B", "C", "D", "E">>

\* payload.text of the n-th deliver call: none, or the text that comes now
PayloadTexts(n) == {"", TextNames[n]}

\* replyText.length <= textLimit: the text goes out whole.
Whole == [within |-> TRUE, chunks |-> <<>>]

\* The text is over the limit, and the chunker returns this list.
Cut(list) == [within |-> FALSE, chunks |-> list]

\* The chunks of a text by their place in the list
ChunkNames == <<"#1", "#2", "#3", "#4">>

\* core.channel.text.chunkMarkdownText(replyText, textLimit) is the host's: of a
\* text over the limit it returns a list of chunks, told apart here by their place
\* in the list, TRUE standing for a chunk with text and FALSE for an empty one.  A
\* chunker loses no text: it returns no chunk at all, or a chunk with text among
\* them.
ChunkLists ==
  {<<>>} \cup {list \in UNION {[1 .. k -> BOOLEAN] : k \in 1 .. MaxChunks} :
                \E i \in 1 .. Len(list) : list[i]}

\* A reply payload: its text, how many media URLs it carries, how its text is cut
\* (cut) and, while its text is being sent, the chunks still to send (rest).
Payload(text, media, cut) ==
  [text |-> text, media |-> media, cut |-> cut, rest |-> <<>>]

\* The payloads whose text is within the limit
Payloads(n) == {Payload(t, m, Whole) : t \in PayloadTexts(n), m \in 0 .. 1}

\* A reply payload with a list of media URLs (payload.mediaUrls).
MediaPayloads(n) == {Payload(t, m, Whole) : t \in PayloadTexts(n), m \in 0 .. MaxMedia}

\* A reply payload, without media, whose text is over the limit
LongPayloads(n) == {Payload(TextNames[n], 0, Cut(list)) : list \in ChunkLists}

NoPayload == Payload("", 0, Whole)

\* if (accumulatedText) accumulatedText += divider + replyText
\* else accumulatedText = replyText
BadAccumulate(acc, body) == <<body>>
Accumulate(acc, body) ==
  IF acc # <<>> THEN acc \o <<Divider, body>> ELSE <<body>>

\* updateMessageCard(cardMessageId, accumulatedText, isStreaming), channel.ts
\* 161-168, as the one call the turn awaits: it is handed the text when it is
\* called, requests a token, patches the card, and fails when either request does.
\* Part VII takes the two requests one by one.
CardUpdate(acc, isStreaming) ==
  Issue("update", IF isStreaming THEN "streaming" ELSE "complete", acc)

\* A turn at rest.
TurnIdle ==
  /\ useStreaming = FALSE
  /\ thinkingMsgId = "null"
  /\ cardMessageId = "null"
  /\ accumulatedText = <<>>
  /\ firstReply = TRUE
  /\ deliverCount = 0
  /\ payload = NoPayload
  /\ turnPc = "idle"
  /\ delivered = <<>>

\* The deliver callback returns, or throws (the dispatcher reports it through
\* onError); either way the dispatch goes on.
DeliverEnds ==
  /\ turnPc' = "dispatch"
  /\ payload' = NoPayload

\* An outbound call is issued and awaited.
Await(box, call, at, p) ==
  /\ outbox' = Append(box, call)
  /\ turnPc' = at
  /\ payload' = p

\* channel.ts 568-572: const chunks = replyText.length <= textLimit ? [replyText]
\* : chunkMarkdownText(replyText, textLimit), and the loop runs over
\* chunks.length > 0 ? chunks : [replyText].  The whole text is <<text>>, its chunk
\* at place i <<text, "#i">>, an empty chunk <<>>.
ChunksOf(p) ==
  IF p.cut.within \/ p.cut.chunks = <<>> THEN <<(<<p.text>>)>>
  ELSE [i \in 1 .. Len(p.cut.chunks) |->
          IF p.cut.chunks[i] THEN <<p.text, ChunkNames[i]>> ELSE <<>>]

\* if (!chunk) continue
RECURSIVE SkipEmpty(_)
SkipEmpty(list) ==
  IF list # <<>> /\ Head(list) = <<>> THEN SkipEmpty(Tail(list)) ELSE list

\* channel.ts 572-588, the loop from the chunks still to send: the next chunk that is
\* not empty is created and awaited; with none left the callback returns.
\* activeClient!.im on a null client throws, and the catch rethrows.
SendRest(box, p, list) ==
  IF SkipEmpty(list) = <<>> THEN outbox' = box /\ DeliverEnds
  ELSE IF activeClient
    THEN Await(box, Issue("create", "text", Head(SkipEmpty(list))), "chunk",
               [p EXCEPT !.rest = Tail(SkipEmpty(list))])
    ELSE outbox' = box /\ DeliverEnds

\* channel.ts 567-588: the text is sent as ordinary messages, chunk by chunk.
SendChunks(box, p) == SendRest(box, p, ChunksOf(p))

\* A first reply that deletes the placeholder of a streaming turn as well.
BadPlainPart(box, p) ==
  IF firstReply /\ thinkingMsgId # "null"
    THEN /\ firstReply' = FALSE
         /\ IF activeClient
              THEN Await(box, Issue("delete", "text", <<>>), "delete", p)
              ELSE SendChunks(box, p)
    ELSE SendChunks(box, p) /\ UNCHANGED firstReply

\* channel.ts 555-588: ordinary mode.  At the first reply the placeholder of a turn
\* that does not stream is deleted (a null client throws inside the try, which is
\* ignored), then the text is sent.
PlainPart(box, p) ==
  IF firstReply /\ thinkingMsgId # "null" /\ ~useStreaming
    THEN /\ firstReply' = FALSE
         /\ IF activeClient
              THEN Await(box, Issue("delete", "text", <<>>), "delete", p)
              ELSE SendChunks(box, p)
    ELSE SendChunks(box, p) /\ UNCHANGED firstReply

\* channel.ts 534-553: the text of the payload.  Without text the callback returns;
\* with a card, the text is added to accumulatedText and the card updated.
TextPart(box, p) ==
  IF p.text = ""
    THEN /\ outbox' = box
         /\ DeliverEnds
         /\ UNCHANGED <<accumulatedText, firstReply>>
  ELSE IF useStreaming /\ cardMessageId # "null"
    THEN /\ accumulatedText' = Accumulate(accumulatedText, p.text)
         /\ Await(box, CardUpdate(accumulatedText', TRUE), "update", p)
         /\ UNCHANGED firstReply
  ELSE PlainPart(box, p) /\ UNCHANGED accumulatedText

\* A callback that leaves the media out.
BadMediaPart(box, p) == TextPart(box, p)

\* channel.ts 507-534: the media of the payload go first, one after the other, then
\* the text.
MediaPart(box, p) ==
  IF p.media > 0
    THEN /\ Await(box, Issue("uploadImage", "image", <<>>), "upload", p)
         /\ UNCHANGED <<accumulatedText, firstReply>>
    ELSE TextPart(box, p)

\* The next media URL of the list, after this one.
NextMedia(p) == [p EXCEPT !.media = @ - 1]

\* channel.ts 520-531: the catch of a failed image falls back to a text message with
\* the URL; nothing catches a failure of that one.
Fallback(box, p) ==
  /\ IF activeClient
       THEN Await(box, Issue("create", "text", <<"[image] url">>), "fallback", p)
       ELSE outbox' = box /\ DeliverEnds
  /\ UNCHANGED <<accumulatedText, firstReply>>

\* channel.ts 400-433: the "thinking" placeholder is sent, a card when streaming; a
\* null client throws inside the try.
Placeholder ==
  /\ turnPc = "start"
  /\ IF activeClient
       THEN Await(outbox, Issue("create", IF useStreaming THEN "card" ELSE "text",
                                <<"thinking">>), "placeholder", NoPayload)
       ELSE /\ turnPc' = "dispatch"
            /\ UNCHANGED <<outbox, payload>>
  /\ UNCHANGED <<method, activeClient, delivered, useStreaming, thinkingMsgId, cardMessageId,
                 accumulatedText, firstReply, deliverCount>>

\* A placeholder whose failure ends the turn.
BadPlaceholderSettled ==
  /\ turnPc = "placeholder"
  /\ \E ok \in BOOLEAN, id \in {"null", "m1"} :
       /\ ok \/ id = "null"
       /\ outbox' = Settle(outbox, ok)
       /\ thinkingMsgId' = id
       /\ cardMessageId' = IF useStreaming THEN id ELSE "null"
       /\ turnPc' = IF ok THEN "dispatch" ELSE "failed"
  /\ UNCHANGED <<method, activeClient, delivered, useStreaming, accumulatedText, firstReply,
                 deliverCount, payload>>

\* channel.ts 419-498: thinkingMsgId = thinkingRes.data?.message_id ?? null, or the
\* failure is logged; then cardMessageId = useStreaming ? thinkingMsgId : null and
\* the reply is dispatched.
PlaceholderSettled ==
  /\ turnPc = "placeholder"
  /\ \E ok \in BOOLEAN, id \in {"null", "m1"} :
       /\ ok \/ id = "null"
       /\ outbox' = Settle(outbox, ok)
       /\ thinkingMsgId' = id
       /\ cardMessageId' = IF useStreaming THEN id ELSE "null"
  /\ turnPc' = "dispatch"
  /\ UNCHANGED <<method, activeClient, delivered, useStreaming, accumulatedText, firstReply,
                 deliverCount, payload>>

\* channel.ts 503-534: the dispatcher calls deliver with a payload.
Deliver(payloads, most) ==
  /\ turnPc = "dispatch"
  /\ deliverCount < most
  /\ deliverCount' = deliverCount + 1
  /\ \E p \in payloads :
       /\ delivered' = Append(delivered, p)
       /\ MediaPart(outbox, p)
  /\ UNCHANGED <<method, activeClient, useStreaming, thinkingMsgId, cardMessageId>>

\* ... with a payload of at most one media URL
deliver == Deliver(Payloads(deliverCount + 1), MaxPayloads)

\* ... with a payload of several media URLs
deliverMedia == Deliver(MediaPayloads(deliverCount + 1), MaxMediaPayloads)

\* ... with a payload whose text is over the limit
deliverLong == Deliver(LongPayloads(deliverCount + 1), MaxLongPayloads)

\* channel.ts 509-519: the upload settles; the image message is created.
UploadSettled ==
  /\ turnPc = "upload"
  /\ \E ok \in BOOLEAN :
       LET box == Settle(outbox, ok) IN
       IF ok /\ activeClient
         THEN /\ Await(box, Issue("create", "image", <<>>), "image", payload)
              /\ UNCHANGED <<accumulatedText, firstReply>>
         ELSE Fallback(box, payload)
  /\ UNCHANGED <<method, activeClient, delivered, useStreaming, thinkingMsgId, cardMessageId,
                 deliverCount>>

\* channel.ts 510-534: the image message settles.
ImageSettled ==
  /\ turnPc = "image"
  /\ \E ok \in BOOLEAN :
       LET box == Settle(outbox, ok) IN
       IF ok THEN MediaPart(box, NextMedia(payload)) ELSE Fallback(box, payload)
  /\ UNCHANGED <<method, activeClient, delivered, useStreaming, thinkingMsgId, cardMessageId,
                 deliverCount>>

\* channel.ts 523-534: the fallback message settles; its failure ends the callback.
FallbackSettled ==
  /\ turnPc = "fallback"
  /\ \E ok \in BOOLEAN :
       LET box == Settle(outbox, ok) IN
       IF ok THEN MediaPart(box, NextMedia(payload))
       ELSE /\ outbox' = box
            /\ DeliverEnds
            /\ UNCHANGED <<accumulatedText, firstReply>>
  /\ UNCHANGED <<method, activeClient, delivered, useStreaming, thinkingMsgId, cardMessageId,
                 deliverCount>>

\* part_002 397-460, the deliver callback of the plugin without streaming: at the
\* first call the placeholder is deleted, whatever the payload holds (a null client
\* throws inside the try, which is ignored); then the media, then the text.
DeliverFirst(payloads, most) ==
  /\ method = "turn.part_002"
  /\ turnPc = "dispatch"
  /\ deliverCount < most
  /\ deliverCount' = deliverCount + 1
  /\ \E p \in payloads :
       /\ delivered' = Append(delivered, p)
       /\ IF firstReply /\ thinkingMsgId # "null"
            THEN /\ firstReply' = FALSE
                 /\ UNCHANGED accumulatedText
                 /\ IF activeClient
                      THEN Await(outbox, Issue("delete", "text", <<>>), "deleteFirst", p)
                    ELSE IF p.media > 0
                      THEN Await(outbox, Issue("uploadImage", "image", <<>>), "upload", p)
                    ELSE UNCHANGED outbox /\ DeliverEnds
            ELSE MediaPart(outbox, p)
  /\ UNCHANGED <<method, activeClient, useStreaming, thinkingMsgId, cardMessageId>>

deliverFirst == DeliverFirst(Payloads(deliverCount + 1), MaxPayloads)

\* ... with a payload whose text is over the limit
deliverFirstLong == DeliverFirst(LongPayloads(deliverCount + 1), MaxLongPayloads)

\* part_002 399-407: the deletion settles; a failure is ignored.
DeleteFirstSettled ==
  /\ turnPc = "deleteFirst"
  /\ \E ok \in BOOLEAN : MediaPart(Settle(outbox, ok), payload)
  /\ UNCHANGED <<method, activeClient, delivered, useStreaming, thinkingMsgId, cardMessageId,
                 deliverCount>>

\* A failed card update that leaves the card in use.
BadUpdateSettled ==
  /\ turnPc = "update"
  /\ \E ok \in BOOLEAN :
       LET box == Settle(outbox, ok) IN
       IF ok
         THEN /\ outbox' = box
              /\ DeliverEnds
              /\ UNCHANGED <<cardMessageId, firstReply>>
         ELSE /\ cardMessageId' = cardMessageId
              /\ PlainPart(box, payload)
  /\ UNCHANGED <<method, activeClient, delivered, useStreaming, thinkingMsgId, accumulatedText,
                 deliverCount>>

\* channel.ts 546-553: the card update settles.  A failure sets cardMessageId to null
\* and the text of this payload goes out the ordinary way.
UpdateSettled ==
  /\ turnPc = "update"
  /\ \E ok \in BOOLEAN :
       LET box == Settle(outbox, ok) IN
       IF ok
         THEN /\ outbox' = box
              /\ DeliverEnds
              /\ UNCHANGED <<cardMessageId, firstReply>>
         ELSE /\ cardMessageId' = "null"
              /\ PlainPart(box, payload)
  /\ UNCHANGED <<method, activeClient, delivered, useStreaming, thinkingMsgId, accumulatedText,
                 deliverCount>>

\* channel.ts 558-567: the deletion of the placeholder settles; a failure is ignored.
DeleteSettled ==
  /\ turnPc = "delete"
  /\ \E ok \in BOOLEAN : SendChunks(Settle(outbox, ok), payload)
  /\ UNCHANGED <<method, activeClient, delivered, useStreaming, thinkingMsgId, cardMessageId,
                 accumulatedText, firstReply, deliverCount>>

\* A loop that goes on to the next chunk after a failed send.
BadChunkSettled ==
  /\ turnPc = "chunk"
  /\ \E ok \in BOOLEAN : SendRest(Settle(outbox, ok), payload, payload.rest)
  /\ UNCHANGED <<method, activeClient, delivered, useStreaming, thinkingMsgId, cardMessageId,
                 accumulatedText, firstReply, deliverCount>>

\* channel.ts 574-588: the text message settles; a failure is rethrown and ends the
\* callback, after a success the loop goes on with the next chunk.
ChunkSettled ==
  /\ turnPc = "chunk"
  /\ \E ok \in BOOLEAN :
       IF ok THEN SendRest(Settle(outbox, ok), payload, payload.rest)
       ELSE outbox' = Settle(outbox, ok) /\ DeliverEnds
  /\ UNCHANGED <<method, activeClient, delivered, useStreaming, thinkingMsgId, cardMessageId,
                 accumulatedText, firstReply, deliverCount>>

\* channel.ts 596-612: dispatchReplyFromConfig settles.  When it resolves and the
\* card is there with text, the card is updated one last time as complete; when it
\* rejects, the catch at 613 logs it.
DispatchSettled ==
  /\ turnPc = "dispatch"
  /\ \E resolved \in BOOLEAN :
       IF resolved /\ useStreaming /\ cardMessageId # "null" /\ accumulatedText # <<>>
         THEN Await(outbox, CardUpdate(accumulatedText, FALSE), "final", NoPayload)
         ELSE /\ turnPc' = IF resolved THEN "done" ELSE "failed"
              /\ UNCHANGED <<outbox, payload>>
  /\ UNCHANGED <<method, activeClient, delivered, useStreaming, thinkingMsgId, cardMessageId,
                 accumulatedText, firstReply, deliverCount>>

\* channel.ts 606-611: the last update settles; a failure is logged.
FinalSettled ==
  /\ turnPc = "final"
  /\ \E ok \in BOOLEAN : outbox' = Settle(outbox, ok)
  /\ turnPc' = "done"
  /\ UNCHANGED <<method, activeClient, delivered, useStreaming, thinkingMsgId, cardMessageId,
                 accumulatedText, firstReply, deliverCount, payload>>

\* ===================================================================
\* Part V: the text of a text event (part_001 126-157, channel.ts 355-398,
\* message.ts 29-71)
\* ===================================================================

\* The tokens of parsed.text: words, a blank, mention keys.
Tokens == {"hello", "world", " ", BotKey, OtherKey}

TokenTexts(n) == UNION {[1 .. k -> Tokens] : k \in 0 .. n}

\* message.mentions: absent, empty, or a list of mentions
EventMentionLists ==
  MentionLists \cup {Mentions(<<BotMention, OtherMention>>)}

\* if (message.message_type === 'text') { text = parsed.text || ''; if
\* (message.mentions) for (...) text = text.replace(mention.key, '').trim() } ...
\* if (!text.trim()) return; the text goes on as it stands.
Normalize ==
  /\ normPc = "event"
  /\ normText' = StripMentions(parsedText, eventMentions)
  /\ normPc' = IF Trim(normText') = <<>> THEN "dropped" ELSE "dispatched"
  /\ UNCHANGED <<parsedText, eventMentions>>

NormIdle ==
  /\ parsedText = <<>>
  /\ eventMentions = Absent
  /\ normText = <<>>
  /\ normPc = "idle"

\* Parts III and IV at rest, for the specifications of the other parts.
OutboundIdle ==
  /\ SendIdle
  /\ method = "chunkText"
  /\ activeClient = FALSE
  /\ outbox = <<>>
  /\ TurnIdle

\* ---------------------------------------------------------- specification

InitFields ==
  /\ started = FALSE
  /\ ws = "null"
  /\ readyState = "NONE"
  /\ opened = FALSE
  /\ isConnected = FALSE
  /\ isHandshakeComplete = FALSE
  /\ reconnectAttempts = 0
  /\ reconnectTimer = NoTimer
  /\ pendingRequests = EmptyMap
  /\ timeouts = {}
  /\ messageQueue = <<>>
  /\ qTimers = <<>>
  /\ nextId = 1
  /\ wire = {}
  /\ settled = [i \in Ids |-> <<>>]
  /\ lastCall = NoCall
  /\ failures = 0
  /\ scheduled = <<>>
  /\ disconnectCalled = FALSE
  /\ atDisconnect = {}

InitSession ==
  /\ impl \in {"handshake", "queueing"}
  /\ sinceHandshake = Unobserved
  /\ InitFields
  /\ InboundIdle
  /\ OutboundIdle
  /\ NormIdle
  /\ LifeIdle
  /\ RestIdle

NextSession ==
  \/ MainConnect /\ UNCHANGED besideSession
  \/ SocketOpen /\ UNCHANGED besideSession
  \/ SocketConnectFail /\ UNCHANGED besideSession
  \/ SocketClosing /\ UNCHANGED besideSession
  \/ SocketClose /\ UNCHANGED besideSession
  \/ ReconnectTimerFire /\ UNCHANGED besideSession
  \/ ReconnectTimerFireQ /\ UNCHANGED besideSession
  \/ SocketMessage /\ UNCHANGED besideSession
  \/ chatViaWs /\ UNCHANGED besideSession
  \/ ChatTimeout /\ UNCHANGED besideSession
  \/ sendRequest /\ UNCHANGED besideSession
  \/ RequestTimeoutQ /\ UNCHANGED besideSession
  \/ disconnect /\ UNCHANGED besideSession
  \/ disconnectQ /\ UNCHANGED besideSession

SpecSession == InitSession /\ [][NextSession]_vars

\* The handshake version's connection life cycle alone (no chat requests), with the
\* reconnects since the last completed handshake counted.
InitReconnect ==
  /\ impl = "handshake"
  /\ sinceHandshake = 0
  /\ InitFields
  /\ InboundIdle
  /\ OutboundIdle
  /\ NormIdle
  /\ LifeIdle
  /\ RestIdle

NextReconnect ==
  \/ MainConnect /\ UNCHANGED besideSession
  \/ SocketOpen /\ UNCHANGED besideSession
  \/ SocketConnectFail /\ UNCHANGED besideSession
  \/ SocketClosing /\ UNCHANGED besideSession
  \/ SocketClose /\ UNCHANGED besideSession
  \/ ReconnectTimerFire /\ UNCHANGED besideSession
  \/ SocketMessage /\ UNCHANGED besideSession
  \/ disconnect /\ UNCHANGED besideSession

SpecReconnect == InitReconnect /\ [][NextReconnect]_vars

\* The inbound handler, in any of its three versions, under any configuration.
InitInbound ==
  /\ variant \in {"dispatcher", "runtime", "channel"}
  /\ requireMention \in
       IF variant = "dispatcher" THEN {"unset"} ELSE {"true", "false", "unset"}
  /\ voiceEnabled \in IF variant = "channel" THEN BOOLEAN ELSE {FALSE}
  /\ processedEvents = {}
  /\ turns = EmptyMap
  /\ passed = [i \in {"e1", "e2"} |-> 0]
  /\ last = Seen("none", FALSE, FALSE, Unread, Unread, Unread, NotRead, FALSE)
  /\ impl = "handshake"
  /\ sinceHandshake = Unobserved
  /\ InitFields
  /\ OutboundIdle
  /\ NormIdle
  /\ Started(variant)
  /\ RestIdle

NextInbound ==
  \/ handleMessageReceive /\ UNCHANGED besideHandler
  \/ WindowReset /\ UNCHANGED besideInbound
  \/ VoiceDone /\ UNCHANGED besideInbound
  \/ PlaceholderDone /\ UNCHANGED besideInbound
  \/ DispatchDone /\ UNCHANGED besideInbound
  \/ DownloadDone /\ UNCHANGED besideHandler
  \/ BackendDone /\ UNCHANGED besideHandler
  \/ ReplyDone /\ UNCHANGED besideInbound

SpecInbound == InitInbound /\ [][NextInbound]_vars

\* The segmenter applied to any text of at most MaxText characters under any limit
\* from 1 to MaxLimit.
InitSegmenter ==
  /\ replyText \in TextsUpTo(MaxText)
  /\ textChunkLimit \in 1 .. MaxLimit
  /\ chunks = <<>>
  /\ segPc = "input"
  /\ method = "chunkText"
  /\ activeClient = FALSE
  /\ sendTo = [prefix |-> "chat:", id |-> ""]
  /\ replyTo = FALSE
  /\ outbox = <<>>
  /\ result = "none"
  /\ TurnIdle
  /\ impl = "handshake"
  /\ sinceHandshake = Unobserved
  /\ InitFields
  /\ InboundIdle
  /\ NormIdle
  /\ LifeIdle
  /\ RestIdle

NextSegmenter == Segment /\ UNCHANGED besideOutbound

SpecSegmenter == InitSegmenter /\ [][NextSegmenter]_vars

\* chunkText taken one iteration of its loop at a time, on every text of at most
\* MaxLoopText characters under any limit from 1 to MaxLimit.  The method is synchronous: once called it runs on.
InitChunkLoop ==
  /\ replyText \in TextsUpTo(MaxLoopText)
  /\ textChunkLimit \in 1 .. MaxLimit
  /\ chunks = <<>>
  /\ segPc = "input"
  /\ method = "chunkText.loop"
  /\ activeClient = FALSE
  /\ sendTo = [prefix |-> "chat:", id |-> ""]
  /\ replyTo = FALSE
  /\ outbox = <<>>
  /\ result = "none"
  /\ TurnIdle
  /\ impl = "handshake"
  /\ sinceHandshake = Unobserved
  /\ InitFields
  /\ InboundIdle
  /\ NormIdle
  /\ LifeIdle
  /\ RestIdle

besideChunkLoop ==
  <<sessionVars, inboundVars, turnVars, normVars, lifeVars, flight, historyVars>>

NextChunkLoop ==
  \/ ChunkEnter /\ UNCHANGED besideChunkLoop
  \/ ChunkIterate /\ UNCHANGED besideChunkLoop

SpecChunkLoop ==
  InitChunkLoop /\ [][NextChunkLoop]_vars /\ WF_vars(NextChunkLoop)

\* The outbound methods, each called once with any arguments: sendText of part_001
\* with any text and limit (0: not set), sendText and sendMedia of channel.ts with any
\* target, with or without a client.
InitSend ==
  /\ method \in {"runtime.sendText", "channel.sendText", "channel.sendMedia"}
  /\ replyText \in IF method = "runtime.sendText" THEN TextsUpTo(MaxText)
                   ELSE TextsUpTo(1)
  /\ textChunkLimit \in IF method = "runtime.sendText" THEN 0 .. MaxLimit ELSE {0}
  /\ activeClient \in IF method = "runtime.sendText" THEN {TRUE} ELSE BOOLEAN
  /\ sendTo \in IF method = "runtime.sendText"
                THEN {[prefix |-> "chat:", id |-> "x1"]} ELSE Targets
  /\ replyTo \in IF method = "channel.sendMedia" THEN {FALSE} ELSE BOOLEAN
  /\ chunks = <<>>
  /\ segPc = "input"
  /\ outbox = <<>>
  /\ result = "none"
  /\ TurnIdle
  /\ impl = "handshake"
  /\ sinceHandshake = Unobserved
  /\ InitFields
  /\ InboundIdle
  /\ NormIdle
  /\ IF method = "runtime.sendText" THEN Started("runtime")
     ELSE IF activeClient THEN Started("channel") ELSE LifeIdle
  /\ RestIdle

NextSend ==
  \/ sendText /\ UNCHANGED besideOutbound
  \/ sendTextSettled /\ UNCHANGED besideOutbound
  \/ channelSendText /\ UNCHANGED besideOutbound
  \/ channelSendTextSettled /\ UNCHANGED besideOutbound
  \/ channelSendMedia /\ UNCHANGED besideOutbound
  \/ channelSendMediaSettled /\ UNCHANGED besideOutbound
  \/ startAccount /\ UNCHANGED besideStartAccount
  \/ startAccountSettled /\ UNCHANGED besideStopAccount
  \/ stopAccount /\ UNCHANGED besideStopAccount

SpecSend == InitSend /\ [][NextSend]_vars

\* One turn of the channel plugin, from the admission of its event: with or without
\* streaming, any payloads, any outcome of every outbound call, and the account
\* stopped at any moment.
InitDelivery ==
  /\ useStreaming \in BOOLEAN
  /\ thinkingMsgId = "null"
  /\ cardMessageId = "null"
  /\ accumulatedText = <<>>
  /\ firstReply = TRUE
  /\ deliverCount = 0
  /\ payload = NoPayload
  /\ turnPc = "start"
  /\ delivered = <<>>
  /\ method = "turn"
  /\ activeClient = TRUE
  /\ outbox = <<>>
  /\ SendIdle
  /\ impl = "handshake"
  /\ sinceHandshake = Unobserved
  /\ InitFields
  /\ InboundIdle
  /\ NormIdle
  /\ Started("channel")
  /\ RestIdle

NextDelivery ==
  \/ Placeholder /\ UNCHANGED besideTurn
  \/ PlaceholderSettled /\ UNCHANGED besideTurn
  \/ deliver /\ UNCHANGED besideTurn
  \/ UploadSettled /\ UNCHANGED besideTurn
  \/ ImageSettled /\ UNCHANGED besideTurn
  \/ FallbackSettled /\ UNCHANGED besideTurn
  \/ UpdateSettled /\ UNCHANGED besideTurn
  \/ DeleteSettled /\ UNCHANGED besideTurn
  \/ ChunkSettled /\ UNCHANGED besideTurn
  \/ DispatchSettled /\ UNCHANGED besideTurn
  \/ FinalSettled /\ UNCHANGED besideTurn
  \/ stopAccount /\ UNCHANGED besideStopAccount

SpecDelivery == InitDelivery /\ [][NextDelivery]_vars

\* One turn without streaming, of the plugin of channel.ts or of that of part_002.
InitPlainTurn ==
  /\ method \in {"turn", "turn.part_002"}
  /\ useStreaming = FALSE
  /\ thinkingMsgId = "null"
  /\ cardMessageId = "null"
  /\ accumulatedText = <<>>
  /\ firstReply = TRUE
  /\ deliverCount = 0
  /\ payload = NoPayload
  /\ turnPc = "start"
  /\ delivered = <<>>
  /\ activeClient = TRUE
  /\ outbox = <<>>
  /\ SendIdle
  /\ impl = "handshake"
  /\ sinceHandshake = Unobserved
  /\ InitFields
  /\ InboundIdle
  /\ NormIdle
  /\ Started("channel")
  /\ RestIdle

NextPlainTurn ==
  \/ Placeholder /\ UNCHANGED besideTurn
  \/ PlaceholderSettled /\ UNCHANGED besideTurn
  \/ method = "turn" /\ deliver /\ UNCHANGED besideTurn
  \/ deliverFirst /\ UNCHANGED besideTurn
  \/ DeleteFirstSettled /\ UNCHANGED besideTurn
  \/ UploadSettled /\ UNCHANGED besideTurn
  \/ ImageSettled /\ UNCHANGED besideTurn
  \/ FallbackSettled /\ UNCHANGED besideTurn
  \/ DeleteSettled /\ UNCHANGED besideTurn
  \/ ChunkSettled /\ UNCHANGED besideTurn
  \/ DispatchSettled /\ UNCHANGED besideTurn
  \/ stopAccount /\ UNCHANGED besideStopAccount

SpecPlainTurn == InitPlainTurn /\ [][NextPlainTurn]_vars

\* One turn whose payloads carry lists of media URLs.
NextMediaTurn ==
  \/ Placeholder /\ UNCHANGED besideTurn
  \/ PlaceholderSettled /\ UNCHANGED besideTurn
  \/ deliverMedia /\ UNCHANGED besideTurn
  \/ UploadSettled /\ UNCHANGED besideTurn
  \/ ImageSettled /\ UNCHANGED besideTurn
  \/ FallbackSettled /\ UNCHANGED besideTurn
  \/ UpdateSettled /\ UNCHANGED besideTurn
  \/ DeleteSettled /\ UNCHANGED besideTurn
  \/ ChunkSettled /\ UNCHANGED besideTurn
  \/ DispatchSettled /\ UNCHANGED besideTurn
  \/ FinalSettled /\ UNCHANGED besideTurn
  \/ stopAccount /\ UNCHANGED besideStopAccount

SpecMedia == InitDelivery /\ [][NextMediaTurn]_vars

\* One turn whose texts are over the limit, of the plugin of channel.ts, streaming
\* or not, or of that of part_002.
InitLongTurn ==
  /\ method \in {"turn", "turn.part_002"}
  /\ useStreaming \in IF method = "turn" THEN BOOLEAN ELSE {FALSE}
  /\ thinkingMsgId = "null"
  /\ cardMessageId = "null"
  /\ accumulatedText = <<>>
  /\ firstReply = TRUE
  /\ deliverCount = 0
  /\ payload = NoPayload
  /\ turnPc = "start"
  /\ delivered = <<>>
  /\ activeClient = TRUE
  /\ outbox = <<>>
  /\ SendIdle
  /\ impl = "handshake"
  /\ sinceHandshake = Unobserved
  /\ InitFields
  /\ InboundIdle
  /\ NormIdle
  /\ Started("channel")
  /\ RestIdle

NextLongTurn ==
  \/ Placeholder /\ UNCHANGED besideTurn
  \/ PlaceholderSettled /\ UNCHANGED besideTurn
  \/ method = "turn" /\ deliverLong /\ UNCHANGED besideTurn
  \/ deliverFirstLong /\ UNCHANGED besideTurn
  \/ DeleteFirstSettled /\ UNCHANGED besideTurn
  \/ UpdateSettled /\ UNCHANGED besideTurn
  \/ DeleteSettled /\ UNCHANGED besideTurn
  \/ ChunkSettled /\ UNCHANGED besideTurn
  \/ DispatchSettled /\ UNCHANGED besideTurn
  \/ FinalSettled /\ UNCHANGED besideTurn
  \/ stopAccount /\ UNCHANGED besideStopAccount

SpecLongTurn == InitLongTurn /\ [][NextLongTurn]_vars

\* The turns of channel.ts and of part_002
TurnMethods == {"turn", "turn.part_002"}

\* The two loops that send a text chunk by chunk: sendText of the runtime on a text
\* of its own, and the deliver callback of a turn on payloads over the limit.
InitChunkSends ==
  \/ InitSend /\ method = "runtime.sendText"
  \/ InitLongTurn

NextChunkSends ==
  \/ sendText /\ UNCHANGED besideOutbound
  \/ sendTextSettled /\ UNCHANGED besideOutbound
  \/ Placeholder /\ UNCHANGED besideTurn
  \/ PlaceholderSettled /\ UNCHANGED besideTurn
  \/ method = "turn" /\ deliverLong /\ UNCHANGED besideTurn
  \/ deliverFirstLong /\ UNCHANGED besideTurn
  \/ DeleteFirstSettled /\ UNCHANGED besideTurn
  \/ UpdateSettled /\ UNCHANGED besideTurn
  \/ DeleteSettled /\ UNCHANGED besideTurn
  \/ ChunkSettled /\ UNCHANGED besideTurn
  \/ DispatchSettled /\ UNCHANGED besideTurn
  \/ FinalSettled /\ UNCHANGED besideTurn
  \/ method \in TurnMethods /\ stopAccount /\ UNCHANGED besideStopAccount

SpecChunkSends == InitChunkSends /\ [][NextChunkSends]_vars

InitNormalize ==
  /\ parsedText \in TokenTexts(MaxTokens)
  /\ eventMentions \in EventMentionLists
  /\ normText = <<>>
  /\ normPc = "event"
  /\ SendIdle
  /\ method = "chunkText"
  /\ activeClient = FALSE
  /\ outbox = <<>>
  /\ TurnIdle
  /\ impl = "handshake"
  /\ sinceHandshake = Unobserved
  /\ InitFields
  /\ InboundIdle
  /\ LifeIdle
  /\ RestIdle

NextNormalize ==
  Normalize /\ UNCHANGED <<sessionVars, inboundVars, outboundVars, lifeVars, restVars>>

SpecNormalize == InitNormalize /\ [][NextNormalize]_vars

\* A channel is started, shut down and started again, and one of its outbound
\* methods is called at any moment.  The runtime has its client from its
\* constructor, the plugin of channel.ts from startAccount.  main() of part_000
\* starts the socket client of event.ts and calls none of these methods.
InitShutdown ==
  /\ method \in {"runtime.sendText", "gateway.sendText", "channel.sendText",
                 "channel.sendMedia", "main"}
  /\ replyText \in IF method = "main" THEN {<<>>} ELSE TextsUpTo(1)
  /\ textChunkLimit \in IF method = "main" THEN {0} ELSE {0, 1}
  /\ activeClient = (method = "runtime.sendText")
  /\ sendTo \in IF method \in {"runtime.sendText", "gateway.sendText", "main"}
                THEN {[prefix |-> "chat:", id |-> "x1"]} ELSE Targets
  /\ replyTo \in IF method \in {"channel.sendMedia", "main"} THEN {FALSE} ELSE BOOLEAN
  /\ chunks = <<>>
  /\ segPc = "input"
  /\ outbox = <<>>
  /\ result = "none"
  /\ IF method = "runtime.sendText" THEN Constructed
     ELSE IF method = "main" THEN Loaded ELSE LifeIdle
  /\ RestIdle
  /\ TurnIdle
  /\ impl = "handshake"
  /\ sinceHandshake = Unobserved
  /\ InitFields
  /\ InboundIdle
  /\ NormIdle

besideShutdown ==
  <<sessionVars, inboundVars, sendVars, turnVars, normVars, restVars>>

NextShutdown ==
  \/ startAccount /\ UNCHANGED besideStartAccount
  \/ startAccountSettled /\ UNCHANGED besideShutdown
  \/ start /\ UNCHANGED besideShutdown
  \/ startSettled /\ UNCHANGED besideShutdown
  \/ abort /\ UNCHANGED besideShutdown
  \/ stopAccount /\ UNCHANGED besideShutdown
  \/ stop /\ UNCHANGED besideShutdown
  \/ gatewayStart /\ UNCHANGED besideStartAccount
  \/ gatewayStartSettled /\ UNCHANGED besideShutdown
  \/ gatewayStop /\ UNCHANGED besideShutdown
  \/ gatewayStopSettled /\ UNCHANGED besideShutdown
  \/ gatewaySendText /\ UNCHANGED besideOutbound
  \/ EarlierWindowReset /\ UNCHANGED besideShutdown
  \/ MainStart /\ UNCHANGED besideShutdown
  \/ MainStartSettled /\ UNCHANGED besideShutdown
  \/ WindowReset /\ UNCHANGED besideInbound
  \/ sendText /\ UNCHANGED besideOutbound
  \/ sendTextSettled /\ UNCHANGED besideOutbound
  \/ channelSendText /\ UNCHANGED besideOutbound
  \/ channelSendTextSettled /\ UNCHANGED besideOutbound
  \/ channelSendMedia /\ UNCHANGED besideOutbound
  \/ channelSendMediaSettled /\ UNCHANGED besideOutbound

SpecShutdown == InitShutdown /\ [][NextShutdown]_vars

\* ===================================================================
\* Part VII: the turns of two chats, in flight together (channel.ts 332-616,
\* part_001 83-181)
\* ===================================================================

\* catch (err) { runtime.error?.(...) } / catch (error) { this.api.log.error(...) }:
\* the handler's promise is fulfilled.
BadHandlerCaught == "thrown"
HandlerCaught == "returned"

InFlight(f) == f.pc \notin {"idle", "returned", "thrown"}

\* The handler's invocation for chat c goes to pc with the fields changed.
FlightStep(c, f) ==
  /\ flight' = [flight EXCEPT ![c] = f]
  /\ UNCHANGED <<variant, useStreaming, activeClient, wsClient, cleanupInterval>>

\* The handler is invoked with the event of chat c: the id is recorded, the content
\* parsed (a JSON.parse that throws is caught at the end of the handler), and the
\* handler suspended at its first await: the placeholder of channel.ts, the
\* dispatch of part_001.
FlightReceive(c) ==
  /\ flight[c].pc = "idle"
  /\ ~IsDuplicate(processedEvents, EventOf(c))
  /\ processedEvents' = RecordEvent(processedEvents, EventOf(c))
  /\ \E contentOk \in BOOLEAN :
       LET over == \E d \in Chats \ {c} : InFlight(flight[d])
           f == [flight[c] EXCEPT !.overlapped = over] IN
       IF ~contentOk
         THEN FlightStep(c, [f EXCEPT !.pc = HandlerCaught, !.failures = {"parse"}])
       ELSE IF variant = "channel" /\ activeClient
         THEN FlightStep(c, [f EXCEPT !.pc = "placeholder"])
       ELSE FlightStep(c, [f EXCEPT !.pc = "dispatch"])

\* channel.ts 405-433, 491-493: the placeholder settles; its id is the card's when
\* the account streams.
FlightPlaceholderSettled(c) ==
  /\ flight[c].pc = "placeholder"
  /\ \E ok \in BOOLEAN :
       FlightStep(c, [flight[c] EXCEPT !.pc = "dispatch", !.thinking = ok,
                                       !.card = ok /\ useStreaming])
  /\ UNCHANGED processedEvents

\* channel.ts 567-588: the text is sent as a message; activeClient.im on a client
\* that stopAccount has set to null throws inside the try and is thrown again to
\* the dispatcher.
FlightSend(c, f) ==
  IF activeClient
    THEN FlightStep(c, [f EXCEPT !.pc = "send", !.issued = @ + 1])
    ELSE FlightStep(c, [f EXCEPT !.pc = "dispatch", !.failures = @ \cup {"send"}])

\* channel.ts 555-588: at the first reply of a turn that does not stream the
\* placeholder is deleted, and deliver is suspended at that await with no text
\* issued; without a client the delete throws into its own empty catch and the
\* text follows at once.
FlightPlain(c, f) ==
  IF f.firstReply /\ f.thinking /\ ~useStreaming
    THEN IF activeClient
           THEN FlightStep(c, [f EXCEPT !.pc = "delete", !.firstReply = FALSE])
           ELSE FlightSend(c, [f EXCEPT !.firstReply = FALSE])
    ELSE FlightSend(c, f)

\* channel.ts 502-588: the dispatcher calls deliver with a text.  With a card
\* updateMessageCard is entered and suspended at await getTenantAccessToken()
\* (161-162), no call carrying the text issued yet; else the text goes out as a
\* message.
FlightDeliver(c) ==
  /\ variant = "channel"
  /\ flight[c].pc = "dispatch"
  /\ flight[c].delivered < MaxFlightPayloads
  /\ LET f == [flight[c] EXCEPT !.delivered = @ + 1] IN
     IF f.card
       THEN FlightStep(c, [f EXCEPT !.pc = "token"])
       ELSE FlightPlain(c, f)
  /\ UNCHANGED processedEvents

\* channel.ts 162-167 under 546-553: the token request settles.  With a token
\* axios.patch is issued with the text accumulated; a rejection is caught at 549,
\* the card dropped and the text sent as a message.  The patch uses no client.
FlightTokenSettled(c) ==
  /\ flight[c].pc = "token"
  /\ \E ok \in BOOLEAN :
       IF ok THEN FlightStep(c, [flight[c] EXCEPT !.pc = "update", !.issued = @ + 1])
       ELSE FlightSend(c, [flight[c] EXCEPT !.card = FALSE,
                                            !.failures = @ \cup {"update"}])
  /\ UNCHANGED processedEvents

\* channel.ts 558-565: the deletion of the placeholder settles, its failure ignored,
\* and the text is sent.
FlightDeleteSettled(c) ==
  /\ flight[c].pc = "delete"
  /\ \E ok \in BOOLEAN : FlightSend(c, flight[c])
  /\ UNCHANGED processedEvents

\* channel.ts 163-167 under 546-553: the patch settles; a failure drops the card
\* and the text, issued once in the patch, is sent as a message.
FlightUpdateSettled(c) ==
  /\ flight[c].pc = "update"
  /\ \E ok \in BOOLEAN :
       IF ok THEN FlightStep(c, [flight[c] EXCEPT !.pc = "dispatch"])
       ELSE LET f == [flight[c] EXCEPT !.card = FALSE, !.failures = @ \cup {"update"}] IN
            IF activeClient THEN FlightStep(c, [f EXCEPT !.pc = "send"])
            ELSE FlightStep(c, [f EXCEPT !.pc = "dispatch", !.failures = @ \cup {"send"}])
  /\ UNCHANGED processedEvents

\* channel.ts 574-588: the text message settles; a failure is rethrown to the
\* dispatcher, which reports it through onError.
FlightSendSettled(c) ==
  /\ flight[c].pc = "send"
  /\ \E ok \in BOOLEAN :
       FlightStep(c, [flight[c] EXCEPT !.pc = "dispatch",
                                       !.failures = IF ok THEN @ ELSE @ \cup {"send"}])
  /\ UNCHANGED processedEvents

\* channel.ts 596-612, part_001 177-180: the dispatch settles; its rejection is
\* caught at the end of the handler; after a streamed turn with text the card is
\* updated as complete.
FlightDispatchSettled(c) ==
  /\ flight[c].pc = "dispatch"
  /\ \E resolved \in BOOLEAN :
       IF ~resolved
         THEN FlightStep(c, [flight[c] EXCEPT !.pc = HandlerCaught,
                                              !.failures = @ \cup {"dispatch"}])
       ELSE IF flight[c].card /\ flight[c].delivered > 0
         THEN FlightStep(c, [flight[c] EXCEPT !.pc = "complete.token"])
       ELSE FlightStep(c, [flight[c] EXCEPT !.pc = "returned"])
  /\ UNCHANGED processedEvents

\* channel.ts 162 under 605-611: the token request of the completing update
\* settles; the patch follows, or the rejection is logged and the handler returns.
FlightFinalTokenSettled(c) ==
  /\ flight[c].pc = "complete.token"
  /\ \E ok \in BOOLEAN :
       IF ok THEN FlightStep(c, [flight[c] EXCEPT !.pc = "complete"])
       ELSE FlightStep(c, [flight[c] EXCEPT !.pc = "returned",
                                            !.failures = @ \cup {"update"}])
  /\ UNCHANGED processedEvents

\* channel.ts 163-167 under 605-611: the completing patch settles; its failure is
\* logged.
FlightFinalSettled(c) ==
  /\ flight[c].pc = "complete"
  /\ \E ok \in BOOLEAN :
       FlightStep(c, [flight[c] EXCEPT !.pc = "returned",
                                       !.failures = IF ok THEN @ ELSE @ \cup {"update"}])
  /\ UNCHANGED processedEvents

\* Two chats, each with one event, handled by the plugin of channel.ts (streaming or
\* not) or by the runtime of part_001.
InitFlights ==
  /\ variant \in {"runtime", "channel"}
  /\ requireMention = "unset"
  /\ voiceEnabled = FALSE
  /\ processedEvents = {}
  /\ turns = EmptyMap
  /\ passed = [i \in {"e1", "e2"} |-> 0]
  /\ last = Seen("none", FALSE, FALSE, Unread, Unread, Unread, NotRead, FALSE)
  /\ useStreaming \in IF variant = "channel" THEN BOOLEAN ELSE {FALSE}
  /\ thinkingMsgId = "null"
  /\ cardMessageId = "null"
  /\ accumulatedText = <<>>
  /\ firstReply = TRUE
  /\ deliverCount = 0
  /\ payload = NoPayload
  /\ turnPc = "idle"
  /\ delivered = <<>>
  /\ method = "turn"
  /\ activeClient = TRUE
  /\ outbox = <<>>
  /\ SendIdle
  /\ impl = "handshake"
  /\ sinceHandshake = Unobserved
  /\ InitFields
  /\ NormIdle
  /\ Started(variant)
  /\ flight = [c \in Chats |-> NoFlight]
  /\ sessions = EmptyMap
  /\ now = 0
  /\ added = [pair \in Pairs |-> <<>>]
  /\ remainder = <<>>

\* What the handler's invocations leave alone.
besideFlights ==
  <<sessionVars, requireMention, voiceEnabled, turns, passed, last, sendVars, method,
    outbox, thinkingMsgId, cardMessageId, accumulatedText, firstReply, deliverCount,
    payload, turnPc, delivered, normVars, isRunning, status, aborted, ctx, earlier,
    gatewayVars, shutdown,
    historyVars,
    remainder>>

NextFlights ==
  \/ \E c \in Chats : FlightReceive(c) /\ UNCHANGED besideFlights
  \/ \E c \in Chats : FlightPlaceholderSettled(c) /\ UNCHANGED besideFlights
  \/ \E c \in Chats : FlightDeliver(c) /\ UNCHANGED besideFlights
  \/ \E c \in Chats : FlightDeleteSettled(c) /\ UNCHANGED besideFlights
  \/ \E c \in Chats : FlightTokenSettled(c) /\ UNCHANGED besideFlights
  \/ \E c \in Chats : FlightUpdateSettled(c) /\ UNCHANGED besideFlights
  \/ \E c \in Chats : FlightSendSettled(c) /\ UNCHANGED besideFlights
  \/ \E c \in Chats : FlightDispatchSettled(c) /\ UNCHANGED besideFlights
  \/ \E c \in Chats : FlightFinalTokenSettled(c) /\ UNCHANGED besideFlights
  \/ \E c \in Chats : FlightFinalSettled(c) /\ UNCHANGED besideFlights
  \/ variant = "channel" /\ stopAccount /\ UNCHANGED besideStopAccount

SpecFlights == InitFlights /\ [][NextFlights]_vars

\* ===================================================================
\* Part VIII: the conversation history (src/utils/config.ts 30-104)
\* ===================================================================

InitHistory ==
  /\ sessions = EmptyMap
  /\ now = 0
  /\ added = [pair \in Pairs |-> <<>>]
  /\ flight = [c \in Chats |-> NoFlight]
  /\ remainder = <<>>
  /\ impl = "handshake"
  /\ sinceHandshake = Unobserved
  /\ InitFields
  /\ InboundIdle
  /\ OutboundIdle
  /\ NormIdle
  /\ LifeIdle

besideHistory ==
  <<sessionVars, inboundVars, outboundVars, normVars, lifeVars, flight, remainder>>

NextHistory ==
  \/ \E pair \in Pairs : addMessage(pair) /\ UNCHANGED besideHistory
  \/ \E pair \in Pairs : getMessages(pair) /\ UNCHANGED besideHistory
  \/ \E pair \in Pairs : clearSession(pair) /\ UNCHANGED besideHistory
  \/ cleanupExpiredSessions /\ UNCHANGED besideHistory
  \/ Tick /\ UNCHANGED besideHistory

SpecHistory == InitHistory /\ [][NextHistory]_vars

\* ===================================================================
\* Claims about Part I
\* ===================================================================

\* The session is Ready, by the flags the version keeps.
\* C1: between two window resets at most one invocation carrying a given non-empty
\* event id proceeds past the deduplication check, and the id is in the seen set
\* exactly when one did; an invocation stopped as a duplicate starts nothing.
C1_AtMostOnce ==
  /\ \A id \in DOMAIN passed :
       /\ passed[id] <= 1
       /\ passed[id] = 1 <=> id \in processedEvents
  /\ last.outcome = "duplicate" => ~last.started

\* C1 witness: a redelivery was stopped as a duplicate while the turn of the first
\* delivery was still suspended.
C1_Witness ==
  /\ last.outcome = "duplicate"
  /\ last.whileSuspended
  /\ \E id \in DOMAIN passed : passed[id] = 1

\* The versions of the handler that have a mention policy.
HasMentionPolicy == variant \in {"runtime", "channel"}

\* C8: in the versions with a mention policy, an event of a chat other than p2p whose
\* mentions are absent or empty, under requireMention true or unset, stops at the
\* mention check and starts no turn; a p2p event never stops at that check.
C8_NoMentionNoMessage ==
  /\ ( /\ HasMentionPolicy
       /\ last.chat_type \in ChatTypes \ {"p2p"}
       /\ last.mentions \in {"absent", "empty"}
       /\ requireMention \in {"true", "unset"} )
     => (last.outcome = "nomention" /\ ~last.started)
  /\ last.outcome = "nomention" => last.chat_type # "p2p"

\* C8 witness: with requireMention unset, an event of a group chat without a
\* mentions field stopped at the mention check.
C8_Witness ==
  /\ requireMention = "unset"
  /\ last.outcome = "nomention"
  /\ last.chat_type = "group"
  /\ last.mentions = "absent"
  /\ ~last.started

\* C9: when the mention policy requires a mention, an event of a chat other than p2p
\* whose mentions do not include the bot starts no turn.
C9_OnlyBotMention ==
  ( /\ HasMentionPolicy
    /\ last.chat_type \in ChatTypes \ {"p2p"}
    /\ requireMention \in {"true", "unset"}
    /\ last.mentions # "bot" )
  => ~last.started

\* C10: an event whose sender_type is 'bot' stops at the sender check and starts no
\* turn, in every version of the handler and under every mention policy.
C10_BotNeverDispatched ==
  last.sender_type = "bot" => (last.outcome = "bot" /\ ~last.started)

\* C10 witness: an event sent by the bot, not a duplicate and well formed, stopped
\* at the sender check.
C10_Witness ==
  /\ last.sender_type = "bot"
  /\ last.outcome = "bot"
  /\ ~last.started

Ready == IF impl = "handshake" THEN isConnected /\ isHandshakeComplete ELSE isConnected

\* C2: every registered request is completed exactly once and leaves the pending
\* table exactly once: an allocated id is in the table exactly as long as its
\* promise has no completion, no promise ever gets a second completion (a late
\* response after the timeout, a timer after the response, a second response), and
\* while a timed request is in the table its timeout timer is armed, so that it is
\* rejected with a timeout if no response comes.
C2_ExactlyOnce ==
  \A id \in Ids :
    /\ Len(settled[id]) <= 1
    /\ id < nextId => (id \in DOMAIN pendingRequests <=> settled[id] = <<>>)
    /\ id >= nextId => id \notin DOMAIN pendingRequests /\ settled[id] = <<>>
    /\ (id \in DOMAIN pendingRequests /\ pendingRequests[id] # "connect")
         => id \in timeouts
    /\ (impl = "handshake" /\ id \in timeouts) => id \in DOMAIN pendingRequests

\* C2 witness: a request timed out (rejected once, gone from the table) while another
\* was answered before its timeout.
C2_Witness ==
  \E a, b \in Ids :
    /\ settled[a] = <<"timeout">>
    /\ a \notin DOMAIN pendingRequests
    /\ settled[b] = <<"resolved">>

\* C3 as stated: in either version a request issued while the session is not Ready
\* fails at once with a not-connected error, is not queued, not registered and not
\* written.
C3_Original ==
  (lastCall.made /\ ~lastCall.ready) =>
    /\ lastCall.outcome = "NotConnected"
    /\ ~lastCall.registered /\ ~lastCall.written /\ ~lastCall.queued

\* C3 amended: the handshake version (chatViaWs) fails a request issued while
\* isConnected or isHandshakeComplete is false at once, without queueing, registering
\* or writing it; the queueing version (sendRequest) queues a request issued while
\* the connection is down, leaving the caller suspended, and neither registers nor
\* writes it at that point.
C3_Amended ==
  (lastCall.made /\ ~lastCall.ready) =>
    IF impl = "handshake"
      THEN /\ lastCall.outcome = "NotConnected"
           /\ ~lastCall.registered /\ ~lastCall.written /\ ~lastCall.queued
      ELSE /\ lastCall.outcome = "suspended"
           /\ lastCall.queued /\ ~lastCall.registered /\ ~lastCall.written

\* C3 witness: chatViaWs was called on an open transport whose handshake was not
\* complete, and threw.
C3_Witness ==
  /\ impl = "handshake"
  /\ isConnected /\ ~isHandshakeComplete
  /\ lastCall.made /\ ~lastCall.ready /\ lastCall.outcome = "NotConnected"

\* C4: the number of reconnects scheduled since the last successful handshake never
\* exceeds maxAttempts.
C4_Bounded == sinceHandshake <= maxReconnectAttempts

\* C5: in the handshake version, N < 10 consecutive transport failures from counter 0
\* schedule exactly N reconnects, the k-th with delay reconnectDelay * min(k, 5)
\* (strictly increasing up to k = 5, constant afterwards), and the counter is 0
\* whenever the handshake is complete.
C5_Backoff ==
  impl = "handshake" =>
    /\ failures < maxReconnectAttempts => Len(scheduled) = failures
    /\ \A k \in 1 .. Len(scheduled) :
         /\ scheduled[k] = 3000 * (IF k < 5 THEN k ELSE 5)
         /\ (k > 1 /\ k <= 5) => scheduled[k] > scheduled[k - 1]
         /\ k > 5 => scheduled[k] = scheduled[k - 1]
    /\ reconnectTimer.armed =>
         /\ Len(scheduled) = reconnectAttempts
         /\ reconnectTimer.delay = scheduled[Len(scheduled)]
    /\ isHandshakeComplete => reconnectAttempts = 0

\* C5 witness: nine failures in a row, nine reconnects scheduled, the last at the cap.
C5_Witness ==
  /\ impl = "handshake"
  /\ failures = 9
  /\ Len(scheduled) = 9
  /\ reconnectTimer.armed /\ reconnectTimer.delay = 15000

\* C6: once disconnect() has been called no reconnect timer is armed, this.ws is
\* null, the socket is not connecting or open and the session is Disconnected, for
\* good.
C6_StaysDisconnected ==
  disconnectCalled =>
    /\ ~reconnectTimer.armed
    /\ qTimers = <<>>
    /\ ws = "null"
    /\ readyState \notin {"CONNECTING", "OPEN"}
    /\ ~isConnected /\ ~isHandshakeComplete

\* C7: every request in the pending table when disconnect() is called is rejected
\* with a Cancelled outcome and removed from the table.
C7_Cancelled ==
  impl = "handshake" =>
    \A id \in atDisconnect :
      /\ id \notin DOMAIN pendingRequests
      /\ settled[id] = <<"cancelled">>

\* Every character of a text is white space.
AllWhite(str) == \A i \in 1 .. Len(str) : str[i] \in WhiteSpace

\* The pieces occur in the text one after the other, without overlap.
RECURSIVE OccurInOrder(_, _)
OccurInOrder(str, pieces) ==
  IF pieces = <<>> THEN TRUE
  ELSE LET c == Head(pieces)
       IN \E k \in 0 .. (Len(str) - Len(c)) :
            /\ SubSeq(str, k + 1, k + Len(c)) = c
            /\ OccurInOrder(SubSeq(str, k + Len(c) + 1, Len(str)), Tail(pieces))

\* The text is the pieces in order with nothing but white space left out after each.
RECURSIVE Reassembles(_, _)
Reassembles(str, pieces) ==
  IF pieces = <<>> THEN str = <<>>
  ELSE LET c == Head(pieces)
           rest == SubSeq(str, Len(c) + 1, Len(str))
       IN /\ Len(c) <= Len(str)
          /\ SubSeq(str, 1, Len(c)) = c
          /\ \E k \in 0 .. Len(rest) :
               /\ AllWhite(SubSeq(rest, 1, k))
               /\ Reassembles(SubSeq(rest, k + 1, Len(rest)), Tail(pieces))

\* The characters of all the pieces together.
RECURSIVE TotalLen(_)
TotalLen(pieces) ==
  IF pieces = <<>> THEN 0 ELSE Len(Head(pieces)) + TotalLen(Tail(pieces))

\* C11: every chunk of chunkText is at most limit long, the chunks occur in the text
\* in reading order, and a text no longer than the limit gives the one chunk that is
\* the text.
C11_ChunksWithinLimit ==
  segPc = "chunked" =>
    /\ \A i \in 1 .. Len(chunks) : Len(chunks[i]) <= textChunkLimit
    /\ OccurInOrder(replyText, chunks)
    /\ Len(replyText) <= textChunkLimit => chunks = <<replyText>>

\* C11 witness: a text longer than twice the limit was cut into three chunks or more,
\* one of them cut short at a space or a newline.
C11_Witness ==
  /\ segPc = "chunked"
  /\ Len(replyText) > 2 * textChunkLimit
  /\ Len(chunks) >= 3
  /\ \E i \in 1 .. (Len(chunks) - 1) : Len(chunks[i]) < textChunkLimit

\* C12: the chunks are consecutive pieces of the text; what lies between one chunk
\* and the next (or after the last) is white space only, no continuation starts with
\* white space, and nothing is repeated or reordered.
C12_Reassembles ==
  segPc = "chunked" =>
    /\ Reassembles(replyText, chunks)
    /\ \A i \in 2 .. Len(chunks) :
         chunks[i] # <<>> /\ Head(chunks[i]) \notin WhiteSpace

\* C12 witness: white space at a break was left out of the chunks.
C12_Witness ==
  /\ segPc = "chunked"
  /\ Len(chunks) >= 2
  /\ TotalLen(chunks) < Len(replyText)
  /\ \E i \in 1 .. Len(replyText) : replyText[i] \notin WhiteSpace

\* A reply of length 2L + r with 0 < r <= L, sent whole by sendText of part_001
\* under the limit L.
ThreeLimitsLong ==
  /\ method = "runtime.sendText"
  /\ result = "ok"
  /\ textChunkLimit >= 1
  /\ Len(replyText) > 2 * textChunkLimit
  /\ Len(replyText) <= 3 * textChunkLimit

\* The texts sent are the first chunks, in order, each sent after the one before it
\* has succeeded.
SentInOrder ==
  /\ Len(outbox) <= Len(chunks)
  /\ \A i \in 1 .. Len(outbox) :
       /\ outbox[i].msg_type = "text"
       /\ outbox[i].text = chunks[i]
       /\ i < Len(outbox) => outbox[i].status = "ok"

\* C13 as stated: a reply of length 2L + r (0 < r <= L) sent in non-streaming mode
\* under the limit L results in exactly 3 sends, each at most L long, in order,
\* whatever the text.
C13_Original ==
  ThreeLimitsLong =>
    /\ Len(outbox) = 3
    /\ \A i \in 1 .. Len(outbox) : Len(outbox[i].text) <= textChunkLimit
    /\ SentInOrder

\* C13 amended: such a reply results in one send per chunk of chunkText, in order,
\* each at most L long; they are exactly 3 when the text holds no white space, and
\* may be fewer (white space dropped at the breaks) or more (chunks cut short at a
\* space or a newline) otherwise.
C13_Amended ==
  /\ method = "runtime.sendText" => SentInOrder
  /\ ThreeLimitsLong =>
       /\ Len(outbox) = Len(chunks)
       /\ \A i \in 1 .. Len(outbox) : Len(outbox[i].text) <= textChunkLimit
       /\ (\A i \in 1 .. Len(replyText) : replyText[i] \notin WhiteSpace)
            => Len(outbox) = 3

\* C13 witness: a reply of length 2L + r without white space went out in three sends.
C13_Witness ==
  /\ ThreeLimitsLong
  /\ textChunkLimit >= 2
  /\ \A i \in 1 .. Len(replyText) : replyText[i] \notin WhiteSpace
  /\ Len(outbox) = 3
  /\ \A i \in 1 .. 3 : outbox[i].status = "ok"

\* --------------------------------------------- the reply of a streaming turn

\* The outbound calls of one kind, in the order they were issued.
CallsOf(box, call, msgTypes) ==
  LET Is(c) == c.call = call /\ c.msg_type \in msgTypes
  IN  SelectSeq(box, Is)

Edits(box) == CallsOf(box, "update", {"streaming", "complete"})

TextMessages(box) == CallsOf(box, "create", {"text"})

CardsCreated(box) == CallsOf(box, "create", {"card"})

TextOnly(name) == Payload(name, 0, Whole)

\* The dispatcher delivered the texts "A", "B", "C", nothing else, to a turn that
\* streams and whose placeholder card was created.
ThreeTexts ==
  /\ useStreaming
  /\ Len(outbox) > 0
  /\ outbox[1] = [call |-> "create", msg_type |-> "card", text |-> <<"thinking">>,
                  status |-> "ok"]
  /\ thinkingMsgId = "m1"
  /\ delivered = <<TextOnly("A"), TextOnly("B"), TextOnly("C")>>

\* ... the dispatch resolved, and no call failed.
ThreeTextsCompleted ==
  /\ ThreeTexts
  /\ turnPc = "done"
  /\ \A k \in 1 .. Len(outbox) : outbox[k].status = "ok"

\* C14, as stated: a streaming turn whose card was created and whose updates all
\* succeed, given the payloads "A", "B", "C" and then completed, has created one card
\* and edited it three times in all, the last edit marking it complete, and has sent
\* no text message.
C14_Original ==
  ThreeTextsCompleted =>
    /\ Len(CardsCreated(outbox)) = 1
    /\ Len(Edits(outbox)) = 3
    /\ outbox[Len(outbox)].msg_type = "complete"
    /\ TextMessages(outbox) = <<>>

\* C14, amended: the card is created once and edited four times: once per payload
\* with the text accumulated so far, in progress, and once more at the end with the
\* whole text, complete; no text message is sent.
C14_Amended ==
  ThreeTextsCompleted =>
    /\ Len(CardsCreated(outbox)) = 1
    /\ TextMessages(outbox) = <<>>
    /\ Edits(outbox) =
         << [call |-> "update", msg_type |-> "streaming", status |-> "ok",
             text |-> <<"A">>],
            [call |-> "update", msg_type |-> "streaming", status |-> "ok",
             text |-> <<"A", Divider, "B">>],
            [call |-> "update", msg_type |-> "streaming", status |-> "ok",
             text |-> <<"A", Divider, "B", Divider, "C">>],
            [call |-> "update", msg_type |-> "complete", status |-> "ok",
             text |-> <<"A", Divider, "B", Divider, "C">>] >>
    /\ outbox = <<outbox[1]>> \o Edits(outbox)

C14_Witness ==
  /\ ThreeTextsCompleted
  /\ Len(Edits(outbox)) = 4

\* The update of the card failed at the second payload, after the first was applied,
\* and every other call succeeded; the account was not stopped and the dispatch
\* resolved.
SecondUpdateFailed ==
  /\ ThreeTexts
  /\ activeClient
  /\ turnPc = "done"
  /\ Len(Edits(outbox)) >= 2
  /\ Edits(outbox)[1].status = "ok"
  /\ Edits(outbox)[2].status = "failed"
  /\ \A k \in 1 .. Len(outbox) :
       outbox[k].status = "ok" \/ outbox[k] = Edits(outbox)[2]

\* C15: when the update of the card fails at the second payload, the whole
\* accumulated text ("A", the divider, "B") is sent as ordinary text, "C" is sent as
\* ordinary text too, and the card is not edited again.
C15_FlushesAccumulated ==
  SecondUpdateFailed =>
    /\ Len(TextMessages(outbox)) = 2
    /\ TextMessages(outbox)[1].text = <<"A", Divider, "B">>
    /\ TextMessages(outbox)[2].text = <<"C">>
    /\ Len(Edits(outbox)) = 2

\* What the turn does instead: only "B" and "C" go out as text.
C15_SendsOnlyLast ==
  SecondUpdateFailed =>
    /\ Len(TextMessages(outbox)) = 2
    /\ TextMessages(outbox)[1].text = <<"B">>
    /\ TextMessages(outbox)[2].text = <<"C">>
    /\ Len(Edits(outbox)) = 2
    /\ cardMessageId = "null"

C15_Reached ==
  /\ SecondUpdateFailed
  /\ Len(TextMessages(outbox)) = 2

\* ------------------------------------------------ the outbound entry points

\* The entry points that take a target, "user:<id>" or "group:<id>".
TakesTarget == method \in {"channel.sendText", "channel.sendMedia"}

\* The invocation finds no client, or a target of neither form.
Refused == TakesTarget /\ (~activeClient \/ ChatIdOf(sendTo) = "")

AllSucceeded(box) == \A k \in 1 .. Len(box) : box[k].status = "ok"

\* C16: sendText and sendMedia never throw: whatever fails, they return
\* { ok: false, error }; an invocation that finds no client or a target that is
\* neither user:<id> nor group:<id> issues no outbound call; and { ok: true } is
\* returned only when every outbound call of the invocation succeeded.
C16_NeverThrows ==
  /\ [](/\ result \in {"none", "ok", "error"}
        /\ segPc = "returned" => result \in {"ok", "error"}
        /\ result = "ok" => outbox # <<>> /\ AllSucceeded(outbox)
        /\ ChatIdOf(sendTo) = "" /\ TakesTarget => outbox = <<>>)
  /\ [][segPc = "input" /\ segPc' # "input" /\ Refused =>
          outbox' = <<>> /\ segPc' = "returned" /\ result' = "error"]_vars
  /\ [][segPc # "returned" /\ segPc' = "returned" /\ result' = "error"
          /\ outbox' # <<>> =>
            outbox'[Len(outbox')].status = "failed" \/ ~activeClient]_vars

\* A call of sendMedia fails after the upload and the image went through, and the
\* failure is returned.
C16_Witness ==
  /\ method = "channel.sendMedia"
  /\ segPc = "returned"
  /\ result = "error"
  /\ Len(outbox) = 3
  /\ outbox[3].status = "failed"

\* An invocation without a client returned at once.
C16_Refused ==
  /\ Refused
  /\ segPc = "returned"
  /\ outbox = <<>>

\* ------------------------------------------------- the text of a text event

HelloBotWorld == <<"hello", " ", BotKey, " ", "world">>

\* The keys of the mentions of the event.
KeysOf(mentions) == {mentions.list[i].key : i \in 1 .. Len(mentions.list)}

Occurs(key, str) == \E i \in 1 .. Len(str) : str[i] = key

\* C17: the text "hello <bot> world" of a group message that mentions the bot, under
\* a mention policy that is on, becomes exactly "hello world", with one blank, and
\* the message is admitted.
C17_HelloWorld ==
  /\ parsedText = HelloBotWorld
  /\ eventMentions = Mentions(<<BotMention>>)
  /\ normPc # "event"
  => /\ normText = <<"hello", " ", "world">>
     /\ normPc = "dispatched"
     /\ ~RejectsForMention("group", "true", eventMentions)

\* What the handler makes of it: the key goes, the blanks on both sides stay.
C17_TwoBlanks ==
  /\ parsedText = HelloBotWorld
  /\ eventMentions = Mentions(<<BotMention>>)
  /\ normPc # "event"
  => /\ normText = <<"hello", " ", " ", "world">>
     /\ normPc = "dispatched"
     /\ ~RejectsForMention("group", "true", eventMentions)

C17_Reached ==
  /\ parsedText = HelloBotWorld
  /\ eventMentions = Mentions(<<BotMention>>)
  /\ normPc = "dispatched"

\* C18: the text of a text event, once normalized, holds no mention key of the
\* event and neither starts nor ends with white space, with or without mentions.
C18_NoKeyNoBlank ==
  normPc \in {"dispatched", "dropped"} =>
    /\ \A key \in KeysOf(eventMentions) : ~Occurs(key, normText)
    /\ normText = Trim(normText)

\* What does hold: the first occurrence of each key is gone, and the ends are
\* trimmed when the event carries a mention.
C18_FirstOccurrence ==
  normPc \in {"dispatched", "dropped"} =>
    /\ normText = StripMentions(parsedText, eventMentions)
    /\ HasMention(eventMentions) => normText = Trim(normText)
    /\ Len(normText) <= Len(parsedText)

C18_Reached ==
  /\ normPc = "dispatched"
  /\ Occurs(BotKey, normText)
  /\ BotKey \in KeysOf(eventMentions)

\* ------------------------------------------------------------ blank messages

\* The last invocation had a text message whose text, the mentions stripped, is
\* empty or white space only (a text message carries no attachment).
BlankText ==
  /\ last.made
  /\ last.normalized.read
  /\ Trim(last.normalized.text) = <<>>

\* C19: an event whose text comes out empty or blank, with no attachment, is dropped
\* without a sound: the invocation returns with nothing dispatched, no placeholder,
\* no reply and no error.
C19_BlankDropped ==
  /\ BlankText => /\ last.outcome = "empty"
                  /\ ~last.started
  /\ last.outcome = "empty" => BlankText

C19_Witness ==
  /\ BlankText
  /\ last.normalized.text = <<" ">>
  /\ last.outcome = "empty"
  /\ turns = EmptyMap

\* ----------------------------------------------------------- the window reset

\* The ids an event can carry.
EventIds == {"e1", "e2"}

\* C20: the record of processed ids is only ever cleared whole: in every step it
\* either keeps every id it holds, or it ends empty, and then every id is unseen
\* again, so that a redelivery passes the check; no id leaves the record alone.
C20_ClearedWhole ==
  [][\/ processedEvents \subseteq processedEvents'
     \/ /\ processedEvents' = {}
        /\ \A id \in EventIds : ~IsDuplicate(processedEvents', id)
        /\ \A id \in EventIds : passed'[id] = 0]_vars

\* A redelivery after a reset: the invocation for "e1" of the window before is
\* still suspended, and "e1" has passed the check again in this window.
C20_Witness ==
  /\ \E t \in DOMAIN turns : t.eventId = "e1"
  /\ TurnCount = 1
  /\ last.made
  /\ last.whileSuspended
  /\ last.outcome \notin {"duplicate", "none"}
  /\ passed["e1"] = 1
  /\ processedEvents = {"e1"}

\* ------------------------------------------------------- events without an id

\* C21: an event with no event id, at the top level or in the header, is never
\* stopped as a duplicate, however many of them came before, and its invocation
\* leaves the record of the ids seen as it was; the record never holds an empty id.
C21_NoIdPasses ==
  /\ [](/\ last.noId => last.outcome # "duplicate"
        /\ "" \notin processedEvents)
  /\ [][last'.noId /\ last' # last =>
          processedEvents' = processedEvents /\ passed' = passed]_vars

\* An event without an id went past the check while the invocation of another event
\* without an id was still suspended, and an id was in the record all along.
C21_Witness ==
  /\ last.noId
  /\ last.whileSuspended
  /\ last.outcome \notin {"duplicate", "none"}
  /\ \E t \in DOMAIN turns : t.eventId = ""
  /\ processedEvents = {"e1"}

\* ------------------------------------------------------------------ shutdown

\* C22: once the channel is shut down, by the abort signal or by a stop, the timer
\* that resets the record of ids is cancelled, the socket client is closed, the
\* status last reported is running = false, connected = false, and every call of
\* sendText or sendMedia made from then on returns { ok: false } with no outbound
\* call.
C22_ShutDown ==
  /\ [](shutdown # "none" =>
          /\ ~cleanupInterval
          /\ wsClient # "open"
          /\ status = Status(FALSE, FALSE))
  /\ [][shutdown # "none" /\ segPc = "input" /\ segPc' # "input" =>
          outbox' = <<>> /\ segPc' = "returned" /\ result' = "error"]_vars

\* What holds of the abort listener of channel.ts, which does all of it for the
\* run that registered it: of the account started once, and of the sends whatever
\* the runs.
C22_Abort ==
  /\ [](shutdown = "abort" =>
          /\ ~activeClient
          /\ earlier = <<>> =>
               /\ ~cleanupInterval
               /\ wsClient = "closed"
               /\ status = Status(FALSE, FALSE))
  /\ [][shutdown = "abort" /\ segPc = "input" /\ segPc' # "input" =>
          outbox' = <<>> /\ segPc' = "returned" /\ result' = "error"]_vars

\* After stop() of the runtime a text was sent all the same, and the timer is still
\* armed.
C22_SentAfterStop ==
  /\ shutdown = "stop"
  /\ cleanupInterval
  /\ result = "ok"
  /\ outbox # <<>>

\* After stopAccount alone the timer is armed and the socket client open.
C22_StillOpen ==
  /\ shutdown = "stopAccount"
  /\ cleanupInterval
  /\ wsClient = "open"

\* stopAccount was called while startAccount awaited the socket client, and the
\* status reported last is the one of the start: running and connected.
C22_Overtaken ==
  /\ shutdown = "stopAccount"
  /\ ~activeClient
  /\ wsClient = "open"
  /\ status = Status(TRUE, TRUE)

\* The abort signal fired while startAccount awaited the socket client: nothing
\* heard it, and the channel runs on.
C22_Unheard ==
  /\ shutdown = "abort.unheard"
  /\ aborted
  /\ wsClient = "open"
  /\ cleanupInterval
  /\ status = Status(TRUE, TRUE)

\* The abort listener of an earlier run has run, and the run started since has its
\* interval armed and its socket client open, with no client for the outbound calls
\* and the status of its start, running and connected, reported last.
C22_OtherRunLeft ==
  /\ shutdown = "abort"
  /\ earlier # <<>>
  /\ earlier[1].wsClient = "closed"
  /\ ~earlier[1].cleanupInterval
  /\ cleanupInterval
  /\ wsClient = "open"
  /\ ~activeClient
  /\ status = Status(TRUE, TRUE)

\* start() was called twice before the first settled, and stop() closed the client
\* created last: the one created first is open, and stays.
C22_FirstClientOpen ==
  /\ shutdown = "stop"
  /\ ~isRunning
  /\ earlier # <<>>
  /\ earlier[1].wsClient = "open"
  /\ wsClient \in {"closing", "closed"}

\* gateway.stop of part_002 has returned: the module holds no runtime and its
\* sendText returned an error with no outbound call, while the interval of the
\* runtime it held is armed for good.
C22_GatewayRefused ==
  /\ shutdown = "gateway.stop"
  /\ ~runtimeInstance
  /\ wsClient = "closed"
  /\ cleanupInterval
  /\ segPc = "returned"
  /\ result = "error"
  /\ outbox = <<>>

\* gateway.stop was called while gateway.start awaited the socket client: stop()
\* of the runtime returned at once, the module forgot the runtime, and the socket
\* client opened afterwards with nothing left to close it.
C22_GatewayLeftOpen ==
  /\ shutdown = "gateway.stop"
  /\ ~runtimeInstance
  /\ stopping = 0
  /\ wsClient = "open"
  /\ isRunning
  /\ cleanupInterval

\* gateway.start was called twice: the runtime created first keeps its interval and
\* its open socket client, and gateway.stop reaches the second only.
C22_GatewayFirstRuntime ==
  /\ shutdown = "gateway.stop"
  /\ earlier # <<>>
  /\ earlier[1].wsClient = "open"
  /\ earlier[1].cleanupInterval
  /\ earlier[1].isRunning
  /\ wsClient = "closed"

\* --------------------------------------------------------------- the handshake

\* The connect requests in the pending table.
ConnectPending == {id \in DOMAIN pendingRequests : pendingRequests[id] = "connect"}

\* C23: the handshake is completed only by a successful response to a connect
\* request that is pending: in every step that sets isHandshakeComplete, a connect
\* request leaves the pending table, resolved.
C23_OnlyConnectResponse ==
  [][impl = "handshake" /\ ~isHandshakeComplete /\ isHandshakeComplete' =>
       \E id \in ConnectPending :
         /\ id \notin DOMAIN pendingRequests'
         /\ settled'[id] = Append(settled[id], "connect_ok")]_vars

\* The handshake counts as complete while the connect request is still pending,
\* unanswered.
C23_CompleteUnanswered ==
  /\ impl = "handshake"
  /\ isHandshakeComplete
  /\ ConnectPending # {}
  /\ \A id \in DOMAIN settled : settled[id] = <<>>

\* ------------------------------------------------- the handshake version, fair

\* The handshake version with its chat requests, under the scheduling the runtime
\* guarantees: an armed timer fires, a connection attempt ends (opened or failed),
\* and a socket that left OPEN emits its 'close' event.  Nothing obliges the
\* gateway to send a message or the connection to break.
InitHandshake ==
  /\ impl = "handshake"
  /\ sinceHandshake = Unobserved
  /\ InitFields
  /\ InboundIdle
  /\ OutboundIdle
  /\ NormIdle
  /\ LifeIdle
  /\ RestIdle

NextHandshake ==
  \/ MainConnect /\ UNCHANGED besideSession
  \/ SocketOpen /\ UNCHANGED besideSession
  \/ SocketConnectFail /\ UNCHANGED besideSession
  \/ SocketClosing /\ UNCHANGED besideSession
  \/ SocketClose /\ UNCHANGED besideSession
  \/ ReconnectTimerFire /\ UNCHANGED besideSession
  \/ SocketMessage /\ UNCHANGED besideSession
  \/ chatViaWs /\ UNCHANGED besideSession
  \/ ChatTimeout /\ UNCHANGED besideSession
  \/ disconnect /\ UNCHANGED besideSession

\* The 'close' event of a socket whose closing has begun.
CloseEmitted == readyState = "CLOSING" /\ SocketClose

SpecHandshakeFair ==
  /\ InitHandshake
  /\ [][NextHandshake]_vars
  /\ WF_vars(ReconnectTimerFire /\ UNCHANGED besideSession)
  /\ WF_vars(ChatTimeout /\ UNCHANGED besideSession)
  /\ WF_vars((SocketOpen \/ SocketConnectFail) /\ UNCHANGED besideSession)
  /\ WF_vars(CloseEmitted /\ UNCHANGED besideSession)

\* The queueing version alone; the timers that are armed fire, a socket that is
\* connecting opens or fails, one that is closing closes.
InitQueueing ==
  /\ impl = "queueing"
  /\ sinceHandshake = Unobserved
  /\ InitFields
  /\ InboundIdle
  /\ OutboundIdle
  /\ NormIdle
  /\ LifeIdle
  /\ RestIdle

NextQueueing ==
  \/ MainConnect /\ UNCHANGED besideSession
  \/ SocketOpen /\ UNCHANGED besideSession
  \/ SocketConnectFail /\ UNCHANGED besideSession
  \/ SocketClosing /\ UNCHANGED besideSession
  \/ SocketClose /\ UNCHANGED besideSession
  \/ ReconnectTimerFireQ /\ UNCHANGED besideSession
  \/ SocketMessage /\ UNCHANGED besideSession
  \/ sendRequest /\ UNCHANGED besideSession
  \/ RequestTimeoutQ /\ UNCHANGED besideSession
  \/ disconnectQ /\ UNCHANGED besideSession

SpecQueueingFair ==
  /\ InitQueueing
  /\ [][NextQueueing]_vars
  /\ WF_vars(ReconnectTimerFireQ /\ UNCHANGED besideSession)
  /\ WF_vars(RequestTimeoutQ /\ UNCHANGED besideSession)
  /\ WF_vars((SocketOpen \/ SocketConnectFail) /\ UNCHANGED besideSession)
  /\ WF_vars(CloseEmitted /\ UNCHANGED besideSession)

\* The connection is open and the handshake has not completed.
AwaitingHandshake == impl = "handshake" /\ isConnected /\ ~isHandshakeComplete

\* C24: a session that awaits the handshake does not await it forever: it becomes
\* ready or goes back to disconnected.
C24_LeavesAwaiting == AwaitingHandshake ~> (~isConnected \/ isHandshakeComplete)

\* C25: every request that is in the pending table when the socket has closed
\* without disconnect() being called leaves the table eventually.
C25_PendingRejected ==
  \A id \in Ids :
    (/\ impl = "handshake"
     /\ readyState = "CLOSED"
     /\ ~disconnectCalled
     /\ id \in DOMAIN pendingRequests) ~> (id \notin DOMAIN pendingRequests)

\* ------------------------------------------------------- the reconnect timers

\* The reconnect timers that are armed and have not fired.
ReconnectTimers == Len(qTimers) + (IF reconnectTimer.armed THEN 1 ELSE 0)

\* C26: at most one reconnect timer is outstanding, and a step that arms one (the
\* steps that count an attempt) starts with none outstanding.
C26_OneReconnectTimer ==
  /\ [](ReconnectTimers <= 1)
  /\ [][reconnectAttempts' = reconnectAttempts + 1 =>
          ReconnectTimers = 0 /\ ReconnectTimers' = 1]_vars

\* The second reconnect of the queueing version is scheduled.
C26_Witness ==
  /\ impl = "queueing"
  /\ reconnectAttempts = 2
  /\ qTimers = <<ReconnectDelayForQ(2)>>

\* The second reconnect of the handshake version is scheduled.
C26_WitnessHandshake ==
  /\ impl = "handshake"
  /\ reconnectAttempts = 2
  /\ reconnectTimer = Timer(ReconnectDelayFor(2))

\* ---------------------------------------------------- dropped gateway messages

\* The messages that cannot be parsed, responses without an id or (handshake
\* version) without the ok field, and responses whose id is not in the pending table.
Unusable(m) ==
  \/ m.type = "garbage"
  \/ /\ m.type = "res"
     /\ \/ m.id = 0
        \/ impl = "handshake" /\ m.ok = "missing"
        \/ m.id \notin DOMAIN pendingRequests

\* C27: receiving an unusable message changes neither the pending table nor the
\* connection state nor the socket, and completes no caller.
C27_Dropped ==
  [][\A m \in GatewayMessages :
       Unusable(m) /\ onMessage(m) =>
         UNCHANGED <<pendingRequests, timeouts, settled, isConnected,
                     isHandshakeComplete, ws, readyState, wire,
                     reconnectTimer, qTimers>>]_vars

\* ------------------------------------------------------- the streaming degrade

\* The k-th outbound call is a card update that failed.
FailedUpdate(box, k) == box[k].call = "update" /\ box[k].status = "failed"

\* The number of the payload whose text a card update added last.
PayloadOf(edit) ==
  CHOOSE i \in 1 .. Len(TextNames) : TextNames[i] = edit.text[Len(edit.text)]

\* The callback is past the text part of the i-th payload delivered: no chunk of its
\* text is left to send.
TextPartDone(i) ==
  \/ i < Len(delivered)
  \/ i = Len(delivered) /\ turnPc \in {"dispatch", "final", "done", "failed"}
  \/ i = Len(delivered) /\ turnPc = "chunk" /\ SkipEmpty(payload.rest) = <<>>

\* Every chunk of the text of the payload was issued as a text message, past the
\* k-th call.
SentAsText(p, k) ==
  \A n \in 1 .. Len(ChunksOf(p)) :
    ChunksOf(p)[n] # <<>> =>
      \E j \in (k + 1) .. Len(outbox) :
        /\ outbox[j].call = "create"
        /\ outbox[j].msg_type = "text"
        /\ outbox[j].text = ChunksOf(p)[n]

\* C28: after a card update has failed the card is not updated again, not even as
\* complete; and while the client is there and nothing else fails, the text of every
\* later payload goes out as an ordinary text message.
C28_OneWay ==
  \A k \in 1 .. Len(outbox) :
    FailedUpdate(outbox, k) =>
      /\ \A j \in (k + 1) .. Len(outbox) : outbox[j].call # "update"
      /\ /\ outbox[k].msg_type = "streaming"
         /\ activeClient
         /\ \A j \in 1 .. Len(outbox) : j # k => outbox[j].status # "failed"
         => \A i \in 1 .. Len(delivered) :
              /\ i > PayloadOf(outbox[k])
              /\ delivered[i].text # ""
              /\ TextPartDone(i)
              => SentAsText(delivered[i], k)

\* The update fails at the first payload, and the texts of the second and the third
\* have gone out as text messages.
C28_Witness ==
  /\ turnPc = "done"
  /\ activeClient
  /\ Len(delivered) = 3
  /\ Len(Edits(outbox)) = 1
  /\ Edits(outbox)[1].status = "failed"
  /\ Edits(outbox)[1].text = <<"A">>
  /\ Len(TextMessages(outbox)) = 3
  /\ TextMessages(outbox)[2] = [call |-> "create", msg_type |-> "text",
                                 text |-> <<"B">>, status |-> "ok"]
  /\ TextMessages(outbox)[3] = [call |-> "create", msg_type |-> "text",
                                 text |-> <<"C">>, status |-> "ok"]

\* ------------------------------------------------------- the completing update

\* A streaming turn whose card was created has ended, its dispatch resolved, and no
\* update of the card failed.
StreamedTurnEnded ==
  /\ useStreaming
  /\ thinkingMsgId = "m1"
  /\ turnPc = "done"
  /\ \A k \in 1 .. Len(Edits(outbox)) : Edits(outbox)[k].status = "ok"

\* The edits of the card end with the one completing update, which carries the
\* accumulated text; the edits before it are marked in progress.
EndsCompleted(edits) ==
  /\ edits # <<>>
  /\ edits[Len(edits)].msg_type = "complete"
  /\ edits[Len(edits)].text = accumulatedText
  /\ \A k \in 1 .. (Len(edits) - 1) : edits[k].msg_type = "streaming"

\* C29: every streaming turn whose card was created and whose updates all succeeded
\* ends with exactly one completing update, the last edit, carrying the full
\* accumulated text, every earlier edit being marked in progress.
C29_EndsCompleted == StreamedTurnEnded => EndsCompleted(Edits(outbox))

\* What holds: the same for the turns that accumulated some text.
C29_CompletedWithText ==
  StreamedTurnEnded /\ accumulatedText # <<>> => EndsCompleted(Edits(outbox))

\* A streaming turn has ended, its card created and never edited: no payload
\* carried text.
C29_NeverCompleted ==
  /\ StreamedTurnEnded
  /\ deliverCount > 0
  /\ Edits(outbox) = <<>>
  /\ \A k \in 1 .. Len(outbox) : outbox[k].status = "ok"

\* ------------------------------------------------------ the chunks of one reply

\* The calls of the outbox that are in the given state.
InState(box, st) == {k \in 1 .. Len(box) : box[k].status = st}

\* The messages of the outbox that carry a chunk of the text of payload p, or the
\* whole of it.
ChunkCalls(box, p) ==
  LET OfPayload(m) == /\ m.call = "create"
                      /\ m.msg_type = "text"
                      /\ m.text # <<>>
                      /\ m.text[1] = p.text
  IN SelectSeq(box, OfPayload)

\* The places, in the list the chunker returned for p, of the chunks with text.
WithText(p) == {i \in 1 .. Len(p.cut.chunks) : p.cut.chunks[i]}

\* The place of the k-th chunk with text.
PlaceOf(p, k) ==
  CHOOSE i \in WithText(p) : Cardinality({j \in WithText(p) : j <= i}) = k

\* The messages carrying the text of p are the first chunks with text of its list,
\* each once and in the order of the list (the whole text once, when the text is
\* within the limit or the list is empty), and every one but the last was
\* acknowledged: none was issued after a failed one, nor beside a pending one.
InChunkOrder(box, p) ==
  LET sent == ChunkCalls(box, p) IN
  /\ IF p.cut.within \/ p.cut.chunks = <<>>
       THEN /\ Len(sent) <= 1
            /\ \A k \in 1 .. Len(sent) : sent[k].text = <<p.text>>
       ELSE /\ Len(sent) <= Cardinality(WithText(p))
            /\ \A k \in 1 .. Len(sent) :
                 sent[k].text = <<p.text, ChunkNames[PlaceOf(p, k)]>>
  /\ \A k \in 1 .. Len(sent) - 1 : sent[k].status = "ok"

\* C30: the chunks of a reply are sent one at a time, in chunk order: at most one
\* send is outstanding, a send is issued only in the step in which the send before
\* it is acknowledged, it carries the next chunk, and after a failed send no chunk
\* of that text is sent.  Of the deliver callback of a turn, for every payload
\* delivered; of sendText of the runtime, for its text.
C30_OneAtATime ==
  /\ [](method \in TurnMethods =>
          /\ Cardinality(InState(outbox, "pending")) <= 1
          /\ InState(outbox, "pending") \subseteq {Len(outbox)}
          /\ \A n \in 1 .. Len(delivered) : InChunkOrder(outbox, delivered[n]))
  /\ [][Len(outbox') > Len(outbox) /\ method \in TurnMethods =>
          /\ Len(outbox') = Len(outbox) + 1
          /\ \A k \in 1 .. Len(outbox) :
               /\ outbox'[k].status # "pending"
               /\ (outbox'[k] = outbox[k] \/ outbox[k].status = "pending")]_vars
  /\ [](method = "runtime.sendText" =>
          /\ Cardinality(InState(outbox, "pending")) <= 1
          /\ InState(outbox, "failed") \subseteq {Len(outbox)}
          /\ InState(outbox, "failed") # {} => result = Caught)
  /\ [][method = "runtime.sendText" /\ Len(outbox') > Len(outbox) =>
          /\ InState(outbox, "failed") = {}
          /\ Len(outbox') = Len(outbox) + 1
          /\ outbox'[Len(outbox')].text = chunks'[Len(outbox')]
          /\ \A k \in 1 .. Len(outbox) :
               outbox'[k] = [outbox[k] EXCEPT !.status = "ok"]]_vars

\* A turn ended in which the chunker returned three chunks with text for the
\* payload: the first was acknowledged, the second failed and ended the callback,
\* and the third was never sent.
C30_Witness ==
  /\ method = "turn"
  /\ turnPc = "done"
  /\ Len(delivered) = 1
  /\ delivered[1].cut = Cut(<<TRUE, TRUE, TRUE>>)
  /\ Len(ChunkCalls(outbox, delivered[1])) = 2
  /\ ChunkCalls(outbox, delivered[1])[1].status = "ok"
  /\ ChunkCalls(outbox, delivered[1])[2].status = "failed"

\* The second of at least three chunks of sendText failed and the method returned.
C30_WitnessRuntime ==
  /\ method = "runtime.sendText"
  /\ Len(chunks) >= 3
  /\ Len(outbox) = 2
  /\ outbox[1].status = "ok"
  /\ outbox[2].status = "failed"
  /\ segPc = "returned"

\* The chunker returned an empty chunk between two with text, and the loop sent the
\* two, the second after the first was acknowledged.
C30_WitnessSkipped ==
  /\ method \in TurnMethods
  /\ Len(delivered) >= 1
  /\ delivered[1].cut = Cut(<<TRUE, FALSE, TRUE>>)
  /\ Len(ChunkCalls(outbox, delivered[1])) = 2
  /\ ChunkCalls(outbox, delivered[1])[2].text = <<"A", "#3">>
  /\ ChunkCalls(outbox, delivered[1])[2].status = "pending"

\* ------------------------------------------------------ the media of a payload

RECURSIVE SumMedia(_)
\* The media URLs of the payloads delivered.
SumMedia(ps) == IF ps = <<>> THEN 0 ELSE Head(ps).media + SumMedia(Tail(ps))

Uploads(box) == CallsOf(box, "uploadImage", {"image"})

IsImage(c) == c.call = "create" /\ c.msg_type = "image"

IsFallback(c) == c.call = "create" /\ c.msg_type = "text" /\ c.text = <<"[image] url">>

\* The call carries the text of the payload, or a chunk of it.
IsTextOf(c, p) ==
  /\ p.text # ""
  /\ \/ /\ c.call = "create"
        /\ c.msg_type = "text"
        /\ c.text # <<>>
        /\ \E n \in 1 .. Len(ChunksOf(p)) : c.text = ChunksOf(p)[n]
     \/ c.call = "update" /\ c.msg_type = "streaming"
          /\ c.text[Len(c.text)] = p.text

\* While a media URL of the payload is handled, nothing with the text of the payload
\* has been issued, and one call at most is outstanding.
MediaBeforeText ==
  /\ turnPc \in {"upload", "image", "fallback"} =>
       /\ payload.media > 0
       /\ \A k \in 1 .. Len(outbox) : ~IsTextOf(outbox[k], delivered[Len(delivered)])
  /\ turnPc \in {"update", "delete", "chunk"} => payload.media = 0
  /\ \A k \in 1 .. (Len(outbox) - 1) : outbox[k].status # "pending"

\* An upload that succeeded is followed by the image message, an upload or an image
\* message that failed by the fallback message.
ImageOrFallback(box) ==
  \A k \in 1 .. Len(box) :
    /\ box[k].call = "uploadImage" /\ box[k].status = "ok" =>
         k < Len(box) /\ IsImage(box[k + 1])
    /\ (box[k].call = "uploadImage" \/ IsImage(box[k])) /\ box[k].status = "failed" =>
         k < Len(box) /\ IsFallback(box[k + 1])

\* The deliver callback is not running.
BetweenPayloads == turnPc \in {"dispatch", "final", "done", "failed"}

\* C31, as stated: the media of a payload are handled before its text, and every
\* media URL of every payload is uploaded and results in an image message or, after
\* a failure, in the fallback message.
C31_Original ==
  /\ MediaBeforeText
  /\ ImageOrFallback(outbox)
  /\ BetweenPayloads => Len(Uploads(outbox)) = SumMedia(delivered)

\* A fallback message failed.
FallbackFailed == \E k \in 1 .. Len(outbox) : IsFallback(outbox[k]) /\ outbox[k].status = "failed"

\* C31, amended: the media of a payload are handled before its text, one at a time;
\* while the client is there every media URL handled results in an image message
\* or, after a failure, in the fallback message; every media URL is handled unless a
\* fallback message failed or the client is gone, which ends the payload.
C31_Amended ==
  /\ MediaBeforeText
  /\ activeClient => ImageOrFallback(outbox)
  /\ Len(Uploads(outbox)) <= SumMedia(delivered)
  /\ BetweenPayloads /\ activeClient /\ ~FallbackFailed =>
       Len(Uploads(outbox)) = SumMedia(delivered)

\* Two media URLs and a text: the first upload failed and its fallback message was
\* sent, the second became an image message, then the text went out.
C31_Witness ==
  /\ ~useStreaming
  /\ activeClient
  /\ delivered = <<Payload("A", 2, Whole)>>
  /\ turnPc = "dispatch"
  /\ Len(outbox) >= 6
  /\ outbox[2].call = "uploadImage" /\ outbox[2].status = "failed"
  /\ IsFallback(outbox[3]) /\ outbox[3].status = "ok"
  /\ outbox[4].call = "uploadImage" /\ outbox[4].status = "ok"
  /\ IsImage(outbox[5]) /\ outbox[5].status = "ok"
  /\ IsTextOf(outbox[Len(outbox)], delivered[1])

\* The fallback message of the first of two media URLs failed: the second is not
\* handled and the text of the payload is not sent.
C31_PayloadCutShort ==
  /\ activeClient
  /\ delivered = <<Payload("A", 2, Whole)>>
  /\ turnPc = "dispatch"
  /\ FallbackFailed
  /\ Len(Uploads(outbox)) = 1
  /\ \A k \in 1 .. Len(outbox) : ~IsTextOf(outbox[k], delivered[1])

\* ------------------------------------------------------------ the placeholder

Deletes(box) == CallsOf(box, "delete", {"text"})

\* The call is a text message with the text of one of the payloads delivered.
IsReplyText(c) == \E i \in 1 .. Len(delivered) : IsTextOf(c, delivered[i])

\* C32: without streaming the placeholder is deleted once at most in a turn; when it
\* is, a payload with text has been delivered, and the deletion comes before every
\* text message of the reply.
C32_DeletedAtFirstText ==
  ~useStreaming =>
    /\ Len(Deletes(outbox)) <= 1
    /\ \A k \in 1 .. Len(outbox) :
         outbox[k].call = "delete" =>
           /\ \E i \in 1 .. Len(delivered) : delivered[i].text # ""
           /\ \A j \in 1 .. (k - 1) : ~IsReplyText(outbox[j])

\* The same for the plugin of channel.ts alone.
C32_ChannelDeletesAtFirstText == method = "turn" => C32_DeletedAtFirstText

\* part_002: the placeholder was deleted in a turn none of whose payloads has text.
C32_DeletedWithoutText ==
  /\ method = "turn.part_002"
  /\ turnPc = "done"
  /\ Len(Deletes(outbox)) = 1
  /\ Deletes(outbox)[1].status = "ok"
  /\ delivered # <<>>
  /\ \A i \in 1 .. Len(delivered) : delivered[i].text = ""

\* -------------------------------------------------- failures of the placeholder

\* The call is the placeholder or its deletion.
OfPlaceholder(c) ==
  \/ c.call = "delete"
  \/ c.call = "create" /\ c.text = <<"thinking">>

\* Nothing failed but calls of the placeholder, and the client is there.
OnlyPlaceholderFailed ==
  /\ activeClient
  /\ \A k \in 1 .. Len(outbox) :
       outbox[k].status = "failed" => OfPlaceholder(outbox[k])

\* The text of every payload whose text part is over went out, as a text message or
\* in an update of the card.
TextsDelivered ==
  \A i \in 1 .. Len(delivered) :
    delivered[i].text # "" /\ TextPartDone(i) =>
      \/ SentAsText(delivered[i], 0)
      \/ \E k \in 1 .. Len(outbox) :
           outbox[k].call = "update" /\ IsTextOf(outbox[k], delivered[i])

\* The step that is done with the placeholder dispatches the reply.
AfterPlaceholder ==
  turnPc \in {"start", "placeholder"} /\ turnPc' \notin {turnPc, "placeholder"} =>
    turnPc' = "dispatch"

\* The step in which the deletion settles sends the text of the payload.
AfterDeletion ==
  turnPc = "delete" /\ turnPc' # "delete" /\ activeClient =>
    turnPc' = "chunk" /\ IsTextOf(outbox'[Len(outbox')], payload)

\* C33: whether the placeholder is sent or not, the reply is dispatched; after a
\* deletion, failed or not, the text of the payload is sent; when nothing but calls
\* of the placeholder failed every text delivered goes out; and a streaming turn
\* without placeholder id never edits a card.
C33_PlaceholderFailureContained ==
  /\ [](/\ OnlyPlaceholderFailed => TextsDelivered
        /\ useStreaming /\ thinkingMsgId = "null" => Edits(outbox) = <<>>)
  /\ [][AfterPlaceholder /\ AfterDeletion]_vars

\* A streaming turn whose card could not be created delivered "A" and "B" as text
\* messages.
C33_Witness ==
  /\ useStreaming
  /\ turnPc = "done"
  /\ outbox # <<>>
  /\ outbox[1].status = "failed"
  /\ OfPlaceholder(outbox[1])
  /\ delivered = <<TextOnly("A"), TextOnly("B")>>
  /\ Len(TextMessages(outbox)) = 2
  /\ TextMessages(outbox)[1].text = <<"A">>
  /\ TextMessages(outbox)[2].text = <<"B">>
  /\ OnlyPlaceholderFailed

\* A turn without streaming whose deletion of the placeholder failed sent its text.
C33_DeleteFailed ==
  /\ ~useStreaming
  /\ turnPc = "done"
  /\ Len(Deletes(outbox)) = 1
  /\ Deletes(outbox)[1].status = "failed"
  /\ OnlyPlaceholderFailed
  /\ delivered = <<TextOnly("A")>>
  /\ Len(TextMessages(outbox)) = 2


\* ===================================================================
\* Claims about Part VII
\* ===================================================================

\* The handler's promise is never rejected.
NeverThrown == \A c \in Chats : flight[c].pc # "thrown"

\* The awaits of deliver that come before the call carrying its text: the deletion
\* of the placeholder (channel.ts 559) and the token request of the card's update
\* (162).
BeforeText == {"delete", "token"}

\* While the client is there every deliver call of every turn has issued the call
\* that carries its text, whatever happened in the other turn; the one suspended
\* before that call has its text still to come.
OwnSendsIssued ==
  activeClient =>
    \A c \in Chats :
      flight[c].issued =
        flight[c].delivered - (IF flight[c].pc \in BeforeText THEN 1 ELSE 0)

\* The step that settles the token request of a turn's card update issues the call
\* that carries the text, with the client there: the patch when there is a token,
\* the text message when there is none, whatever the other turn's state.
TextFollowsToken ==
  \A c \in Chats :
    flight[c].pc = "token" /\ flight'[c] # flight[c] /\ activeClient =>
      /\ flight'[c].pc \in {"update", "send"}
      /\ flight'[c].issued = flight[c].issued + 1
      /\ flight'[c].issued = flight'[c].delivered

\* The step that settles the deletion of a turn's placeholder issues the text, with
\* the client there, whatever the deletion's outcome and the other turn's state.
TextFollowsDelete ==
  \A c \in Chats :
    flight[c].pc = "delete" /\ flight'[c] # flight[c] /\ activeClient =>
      flight'[c].pc = "send" /\ flight'[c].issued = flight'[c].delivered

\* A step in which the turn of chat c meets a failure changes nothing outside that
\* turn: the client, the connection, the window timer, the other chat's turn, and
\* the dedup record apart from the turn's own event id.
FailureLocal ==
  \A c \in Chats :
    flight'[c].failures # flight[c].failures =>
      /\ activeClient' = activeClient
      /\ wsClient' = wsClient
      /\ cleanupInterval' = cleanupInterval
      /\ processedEvents' \ {EventOf(c)} = processedEvents \ {EventOf(c)}
      /\ \A d \in Chats \ {c} : flight'[d] = flight[d]

\* C34: a failure inside one turn (content that does not parse, a send or card
\* update that fails, a dispatch that rejects) stays inside it: the handler never
\* passes the error on to the event dispatcher, the step that meets the failure
\* leaves the dedup record, the active client and the connection as they were, and
\* a turn of another chat in flight at the same time still issues all its sends.
C34_FailureContained ==
  /\ [](NeverThrown /\ OwnSendsIssued)
  /\ [][FailureLocal /\ TextFollowsDelete /\ TextFollowsToken]_vars

\* Two streamed turns overlapped: the token request of the first was refused and
\* its text message failed, while the second, suspended at its own token request
\* when that happened or later, had every text issued in a patch and met no failure.
C34_TokenRefused ==
  /\ useStreaming
  /\ {"update", "send"} \subseteq flight["c1"].failures
  /\ ~flight["c1"].card
  /\ flight["c2"].overlapped
  /\ flight["c2"].card
  /\ flight["c2"].pc = "complete"
  /\ flight["c2"].failures = {}
  /\ flight["c2"].issued = MaxFlightPayloads
  /\ activeClient

\* Two turns overlapped; the first failed in a send and in the dispatch, the second
\* returned with every send issued and no failure.
C34_Witness ==
  /\ flight["c1"].pc = "returned"
  /\ {"send", "dispatch"} \subseteq flight["c1"].failures
  /\ flight["c2"].pc = "returned"
  /\ flight["c2"].overlapped
  /\ flight["c2"].failures = {}
  /\ flight["c2"].issued = MaxFlightPayloads
  /\ processedEvents = {"e1", "e2"}
  /\ activeClient


\* ===================================================================
\* Claims about the loop of chunkText
\* ===================================================================

\* A pass of the loop that goes round again leaves a shorter remaining text.
Shrinks == segPc = "loop" /\ segPc' = "loop" => Len(remainder') < Len(remainder)

\* No chunk of a text longer than the limit is empty.
NoEmptyChunk ==
  Len(replyText) > textChunkLimit => \A k \in 1 .. Len(chunks) : chunks[k] # <<>>

\* The chunks the loop ends with are the value of the function of text and limit.
SameChunks == segPc = "chunked" => chunks = chunkText(replyText, textChunkLimit)

\* C35: segmentation terminates for every text and every limit >= 1: each pass of
\* the loop removes at least one character from the remaining text, every chunk of
\* a text longer than the limit is non-empty, and text and limit determine the
\* chunk sequence.
C35_Terminates ==
  /\ <>(segPc = "chunked")
  /\ [][Shrinks]_vars
  /\ [](NoEmptyChunk /\ SameChunks)

\* A text of white space only, longer than the limit, has been cut: one chunk of
\* blanks and nothing after it.
C35_Witness ==
  /\ segPc = "chunked"
  /\ Len(replyText) = MaxLoopText
  /\ textChunkLimit = 1
  /\ \A k \in 1 .. Len(replyText) : replyText[k] \in WhiteSpace
  /\ Len(chunks) = 1
  /\ remainder = <<>>

\* A text of letters only has been cut at the limit, pass after pass.
C35_WitnessHardCuts ==
  /\ segPc = "chunked"
  /\ Len(replyText) = MaxLoopText
  /\ textChunkLimit = 1
  /\ \A k \in 1 .. Len(replyText) : replyText[k] \notin WhiteSpace
  /\ Len(chunks) = MaxLoopText

\* The offsets (from 0) at or before limit where ch stands in str.
OffsetsOf(str, ch, limit) ==
  {k \in 0 .. limit : k < Len(str) /\ str[k + 1] = ch}

Greatest(S) == CHOOSE k \in S : \A j \in S : j <= k

\* The last offset of ch at or before limit lies in the upper half of the window.
UpperHalf(str, ch, limit) ==
  /\ OffsetsOf(str, ch, limit) # {}
  /\ 2 * Greatest(OffsetsOf(str, ch, limit)) >= limit

\* The break offset as the rule states it.
RuleOffset(str, limit) ==
  IF UpperHalf(str, "\n", limit) THEN Greatest(OffsetsOf(str, "\n", limit))
  ELSE IF UpperHalf(str, " ", limit) THEN Greatest(OffsetsOf(str, " ", limit))
  ELSE limit

\* t is s without a run of white space at its start, and does not begin with any.
TrimmedOf(t, s) ==
  /\ t = <<>> \/ t[1] \notin WhiteSpace
  /\ \E n \in 0 .. Len(s) :
       /\ \A k \in 1 .. n : s[k] \in WhiteSpace
       /\ t = SubSeq(s, n + 1, Len(s))

\* A pass of the loop over a remaining text longer than the limit cuts at the
\* rule's offset and trims the rest.
BreaksByRule ==
  segPc = "loop" /\ Len(remainder) > textChunkLimit =>
    LET b == RuleOffset(remainder, textChunkLimit) IN
    /\ chunks' = Append(chunks, SubSeq(remainder, 1, b))
    /\ TrimmedOf(remainder', SubSeq(remainder, b + 1, Len(remainder)))

\* C36: while the remaining text exceeds the limit L, the break offset is the last
\* newline at an offset <= L if that offset is >= L/2; otherwise the last space at
\* an offset <= L if that offset is >= L/2; otherwise exactly L.  A newline in the
\* upper half is preferred over a later space, and leading white space is trimmed
\* from the remainder after each break.
C36_BreakOffset == [][BreaksByRule]_vars

\* A text with a newline in the upper half of the window and a space after it was
\* cut at the newline, and the white space after the cut is gone.
C36_Witness ==
  /\ segPc = "chunked"
  /\ textChunkLimit = MaxLimit
  /\ replyText = <<"a", "b", "\n", " ", "a">>
  /\ chunks = <<(<<"a", "b">>), <<"a">>>>


\* ===================================================================
\* Claims about the queue of the queueing version
\* ===================================================================

\* The request with this id was sent for a caller that had been queued.
SentFromQueue(id) == id \in DOMAIN pendingRequests /\ pendingRequests[id] = "queued"

\* The queued caller's promise is settled: resolved with the response, or rejected.
CallerSettled(id) == settled[id] \in {<<"resolved">>, <<"timeout">>, <<"send_error">>}

\* C37: in the queueing version every request submitted while the connection is
\* down is settled once the connection opens: the queue is sent in order on the
\* next open, and each queued caller's promise is then resolved with its response or
\* rejected on timeout or send failure, never left pending for ever.
C37_QueuedSettled == \A id \in Ids : SentFromQueue(id) ~> CallerSettled(id)

\* A request sent from the queue has timed out; the rejection went to no one.
C37_CallerLeftPending ==
  \E id \in Ids :
    /\ settled[id] = <<"unhandled">>
    /\ id \notin DOMAIN pendingRequests
    /\ id \notin timeouts

\* The queue is sent in order at the open, and a queued caller that is answered is
\* resolved.
C37_QueueSentInOrder ==
  /\ impl = "queueing"
  /\ messageQueue = <<>>
  /\ \A id \in Ids : id < nextId => id \in wire
  /\ \E id \in Ids : settled[id] = <<"resolved">> /\ id \notin DOMAIN pendingRequests


\* ===================================================================
\* Claims about the record of ids and the rejected events
\* ===================================================================

\* How an invocation that went past the deduplication check can end without a turn.
Rejections == {"invalid", "bot", "nomention", "empty", "error"}

\* An invocation carrying this id goes past the deduplication check in this step.
NewPass(id) == passed'[id] > passed[id]

\* The step that rejects an event with an id leaves the id in the record.
RecordedAtRejection ==
  \A id \in DOMAIN passed :
    NewPass(id) /\ last'.outcome \in Rejections =>
      id \in processedEvents' /\ ~last'.started

\* While an id is in the record no invocation carrying it goes past the check.
DroppedWhileRecorded ==
  \A id \in DOMAIN passed : id \in processedEvents => ~NewPass(id)

\* Nothing but the reset of the window takes an id out of the record: not the end
\* of a turn, whether it succeeded or failed.
KeptInWindow == processedEvents \subseteq processedEvents' \/ processedEvents' = {}

\* C38: an event id is recorded before any admission check: when an event with an
\* id is rejected afterwards (message or sender missing, bot sender, mention policy,
\* empty text) or its turn fails, a redelivery of the same id within the window is
\* still dropped as a duplicate and never processed.
C38_RecordedBeforeChecks ==
  [][RecordedAtRejection /\ DroppedWhileRecorded /\ KeptInWindow]_vars

\* An event whose id came in the header was rejected for the mention policy; no turn
\* was started and the id is in the record.
C38_Witness ==
  /\ last.outcome = "nomention"
  /\ ~last.noId
  /\ ~last.started
  /\ processedEvents = {"e2"}
  /\ passed["e2"] = 1
  /\ turns = EmptyMap

\* A redelivery was dropped after the rejection of the first delivery.
C38_WitnessRedelivery ==
  /\ last.outcome = "duplicate"
  /\ ~last.whileSuspended
  /\ processedEvents = {"e2"}
  /\ passed["e2"] = 1
  /\ turns = EmptyMap


\* ===================================================================
\* Claims about the card after the degrade
\* ===================================================================

\* The turn has fallen back: an in-progress update of the card has failed.
FellBack(box) ==
  \E k \in 1 .. Len(box) : FailedUpdate(box, k) /\ box[k].msg_type = "streaming"

\* The calls that have changed what the card shows: its creation and the updates
\* that succeeded.
Applied(box) ==
  {k \in 1 .. Len(box) :
     /\ box[k].status = "ok"
     /\ box[k].call = "update" \/ box[k].msg_type = "card"}

\* What the card shows: the content of the last call applied to it.
CardShown(box) ==
  LET k == CHOOSE j \in Applied(box) : \A i \in Applied(box) : i <= j
  IN [state |-> box[k].msg_type, text |-> box[k].text]

\* After the fall back the card exists, is in progress, was not deleted and is not
\* used any more.
CardLeftInProgress ==
  FellBack(outbox) =>
    /\ cardMessageId = "null"
    /\ Applied(outbox) # {}
    /\ \A k \in 1 .. Len(outbox) :
         outbox[k].call # "delete" /\ outbox[k].msg_type # "complete"

\* After the fall back no step applies anything to the card: what it shows stays.
CardUntouched ==
  FellBack(outbox) =>
    /\ Applied(outbox') = Applied(outbox)
    /\ \A k \in Applied(outbox) : outbox'[k] = outbox[k]

\* C39: after a streaming turn has fallen back to ordinary messages because a card
\* update failed, the card is neither deleted nor marked complete for the rest of
\* the turn: the last state applied to it, in progress, is its final state.
C39_CardLeft == [](CardLeftInProgress) /\ [][CardUntouched]_vars

\* The card showed the first text, the update for the second failed, the rest went
\* out as messages and the turn is over with the card still in progress.
C39_Witness ==
  /\ turnPc = "done"
  /\ useStreaming
  /\ Len(delivered) = 3
  /\ FellBack(outbox)
  /\ CardShown(outbox) = [state |-> "streaming", text |-> <<"A">>]
  /\ outbox[Len(outbox)].call = "create"
  /\ outbox[Len(outbox)].text = <<"C">>
  /\ outbox[Len(outbox)].status = "ok"


\* ===================================================================
\* Claims about Part VIII
\* ===================================================================

\* The sessions kept for a pair, by the ids they were created with.
SessionsOf(pair) ==
  {key \in DOMAIN sessions :
     sessions[key].chatId = pair.chatId /\ sessions[key].userId = pair.userId}

\* What is kept for a pair: its messages, or nothing.
HistoryOf(map, pair) ==
  LET keys == {key \in DOMAIN map :
                 map[key].chatId = pair.chatId /\ map[key].userId = pair.userId}
  IN {map[key] : key \in keys}

\* The last n elements of a list, or all of it.
LastOf(list, n) ==
  IF Len(list) <= n THEN list
  ELSE [k \in 1 .. n |-> list[Len(list) - n + k]]

\* Every session holds at most MAX_HISTORY_LENGTH messages: the last ones added to
\* its pair, in the order they were added.
BoundedWindow ==
  \A pair \in Pairs :
    /\ added[pair] # <<>> => SessionsOf(pair) # {}
    /\ \A key \in SessionsOf(pair) :
         /\ Len(sessions[key].messages) <= MAX_HISTORY_LENGTH
         /\ sessions[key].messages = LastOf(added[pair], MAX_HISTORY_LENGTH)

\* Adding to the session of a pair, or clearing it, leaves what is kept for the other
\* pair as it was.
OthersUntouched ==
  \A pair \in Pairs :
    addMessage(pair) \/ clearSession(pair) =>
      \A other \in Pairs \ {pair} :
        HistoryOf(sessions', other) = HistoryOf(sessions, other)

\* C40: the conversation history is a bounded window: after any sequence of
\* addMessage, clearSession and cleanup every session holds at most 20 messages, the
\* most recently added ones in insertion order; and adding to or clearing the
\* session of one (chat, user) pair never changes that of another pair.
C40_BoundedWindow == [](BoundedWindow) /\ [][OthersUntouched]_vars

\* One pair's session has been trimmed twice and holds the last 20 of 22 messages;
\* the other pair, whose ids read the same without the separator, holds its one.
C40_Witness ==
  \E pair \in Pairs, other \in Pairs :
    /\ pair # other
    /\ Len(added[pair]) = MAX_HISTORY_LENGTH + 2
    /\ \E key \in SessionsOf(pair) :
         sessions[key].messages = [k \in 1 .. MAX_HISTORY_LENGTH |-> k + 2]
    /\ \E key \in SessionsOf(other) : sessions[key].messages = <<1>>

====
